---- MODULE Spec2Model ----
(***************************************************************************)
(* NFL board (src/nfl_board/board.py): the snapshot refresh / selection    *)
(* engine.  A build (basic or full tier) fetches from the adapter and      *)
(* stores a snapshot in the shared slot data.nfl_board_snapshot; render()  *)
(* recomputes current_display_items from the slot and draws them.          *)
(*                                                                         *)
(* The module holds one state machine and four specifications over it:     *)
(*   Spec            the board: constructor, scheduler jobs, builds,       *)
(*                   render, clock, cleanup                                *)
(*   SpecBuild       one build of either tier over every adapter outcome   *)
(*   SpecSelect      the selection pass over every built snapshot          *)
(*   SpecVisibility  should_show_previous_game over every game and time    *)
(***************************************************************************)
EXTENDS Integers, Sequences, FiniteSets, TLC

VARIABLES
    config,                 \* NFLBoardConfig: team_ids, show_all_games, show_previous_games_until_time
    has_scheduler,          \* whether data.scheduler exists
    now,                    \* datetime.now(): [day, time]
    nfl_board_snapshot,     \* the slot data.nfl_board_snapshot: <<>> (None) or <<snapshot>>
    current_display_items,  \* NFLBoard.current_display_items
    last_layout_refresh,    \* NFLBoard.last_layout_refresh: <<>> (datetime.min) or <<instant>>
    jobs,                   \* job ids registered with the scheduler by this board
    pc,                     \* where the board instance is in its life
    last_build,             \* what the most recent build did (tier, adapter calls, failure)
    last_render,            \* what the most recent render() pass drew
    probe,                  \* should_show_previous_game: <<>> or <<[game, result]>>
    in_flight,              \* per thread that builds: where its build stands
    selection,              \* the _refresh_display_games call in progress and its locals
    slot_id,                \* id() of the snapshot object the slot holds, 0 for None
    drawn,                  \* the item render() draws: <<>> or <<[item, ...]>>
    job_store,              \* the scheduler's jobs, one entry per add_job that took effect
    setup_calls,            \* how often _setup_data_refresh_schedule has been called
    board_config,           \* the configuration a board is constructed from, as Python values
    adapter,                \* "flaky": a call of the adapter may fail; "works": none does
    sleep_event             \* sleepEvent.is_set()

\* the state of the threads and of the scheduler's job store
thread_vars == <<in_flight, selection, slot_id, drawn, job_store, setup_calls,
                 board_config, adapter, sleep_event>>

vars == <<config, has_scheduler, now, nfl_board_snapshot, current_display_items,
          last_layout_refresh, jobs, pc, last_build, last_render, probe,
          in_flight, selection, slot_id, drawn, job_store, setup_calls,
          board_config, adapter, sleep_event>>

-----------------------------------------------------------------------------
(* Bounds of the model *)

MaxHour == 1        \* hours of the model's day are 0..MaxHour
MaxMinute == 1      \* minutes of the model's hour are 0..MaxMinute
MaxDay == 3         \* calendar days are 0..MaxDay
MaxFavorites == 2   \* longest configured team_ids list

Hours == 0..MaxHour
Minutes == 0..MaxMinute
Days == 0..MaxDay

\* datetime.time values: hour and minute (seconds are 0 in a parsed cutoff)
Times == [hour : Hours, minute : Minutes]

\* game.date is Optional[datetime]: None is NoDate, else the calendar day
NoDate == -1

TeamIds == {"A", "B", "X", "Y"}
FavoriteIds == {"A", "B"}
StatusStates == {"pre", "in", "post"}

-----------------------------------------------------------------------------
(* Domain model *)

\* NFLGame: home and away team, date, status
NFLGame(home, away, date, state) ==
    [home_team |-> home, away_team |-> away, date |-> date, status_state |-> state]

is_live(game) == game.status_state = "in"

is_final(game) == game.status_state = "post"

involves_team(game, team_id) ==
    game.home_team = team_id \/ game.away_team = team_id

\* datetime.time.__lt__: lexicographic on (hour, minute)
time_lt(a, b) ==
    \/ a.hour < b.hour
    \/ a.hour = b.hour /\ a.minute < b.minute

-----------------------------------------------------------------------------
(* NFLBoardConfig.should_show_previous_game *)

should_show_previous_game_le(game, clock, cutoff) ==
    IF ~is_final(game) THEN TRUE
    ELSE IF game.date = NoDate THEN FALSE
    ELSE IF game.date >= clock.day THEN TRUE
    ELSE IF game.date = clock.day - 1 THEN ~time_lt(cutoff, clock.time)
    ELSE FALSE

should_show_previous_game_final_first(game, clock, cutoff) ==
    IF game.date = NoDate THEN ~is_final(game)
    ELSE IF game.date >= clock.day THEN TRUE
    ELSE IF game.date = clock.day - 1 THEN time_lt(clock.time, cutoff)
    ELSE FALSE

should_show_previous_game_yesterday_only(game, clock, cutoff) ==
    IF ~is_final(game) THEN TRUE
    ELSE IF game.date = NoDate THEN FALSE
    ELSE IF game.date = clock.day THEN TRUE
    ELSE time_lt(clock.time, cutoff)

\* variant: a final game without a date is shown
should_show_previous_game_undated_shown(game, clock, cutoff) ==
    IF ~is_final(game) THEN TRUE
    ELSE IF game.date = NoDate THEN TRUE
    ELSE IF game.date >= clock.day THEN TRUE
    ELSE IF game.date = clock.day - 1 THEN time_lt(clock.time, cutoff)
    ELSE FALSE

should_show_previous_game(game, clock, cutoff) ==
    IF ~is_final(game) THEN TRUE
    ELSE IF game.date = NoDate THEN FALSE
    ELSE IF game.date >= clock.day THEN TRUE
    ELSE IF game.date = clock.day - 1 THEN time_lt(clock.time, cutoff)
    ELSE FALSE

-----------------------------------------------------------------------------
(* NFLTeam and NFLDataSnapshot *)

NFLTeam(team_id, detailed) == [team_id |-> team_id, has_detailed_record |-> detailed]

\* a dict keyed by team id; <<>> is the empty dict
TeamsMap(ids) == [t \in ids |-> NFLTeam(t, FALSE)]

\* NFLDataSnapshot(): every collection empty, no error
NFLDataSnapshot ==
    [all_teams           |-> <<>>,
     favorite_teams      |-> <<>>,
     todays_games        |-> <<>>,
     yesterdays_games    |-> <<>>,
     live_games          |-> <<>>,
     favorite_team_games |-> <<>>,
     team_schedules      |-> <<>>,
     errors              |-> <<>>]

add_error(snapshot, message) ==
    [snapshot EXCEPT !.errors = Append(@, message)]

\* valid: no error and the teams map is populated
is_valid(snapshot) ==
    snapshot.errors = <<>> /\ DOMAIN snapshot.all_teams # {}

\* variant: no game is taken as a favorite-team game
FavoriteGamesOf_none(games, team_ids) == <<>>

\* [game for game in games if any(game.involves_team(t) for t in team_ids)]
FavoriteGamesOf(games, team_ids) ==
    LET Fav(g) == \E i \in DOMAIN team_ids : involves_team(g, team_ids[i])
    IN SelectSeq(games, Fav)

\* variant: every game that has started counts as live
LiveGamesOf_started(games) ==
    LET Started(g) == g.status_state # "pre"
    IN SelectSeq(games, Started)

LiveGamesOf(games) == SelectSeq(games, is_live)

\* {team_id: team for team_id, team in all_teams.items() if team_id in team_ids}
FavoriteTeamsOf(all_teams, team_ids) ==
    LET keep == {t \in DOMAIN all_teams : \E i \in DOMAIN team_ids : team_ids[i] = t}
    IN [t \in keep |-> all_teams[t]]

\* the value the dict team_schedules holds after the loop has stored the
\* schedules of team_ids[1..n] in order (a later store of the same key wins)
SchedulesOf(team_ids, fetched, n) ==
    LET keys == {team_ids[i] : i \in 1..n}
        Last(t) == CHOOSE i \in 1..n :
                      /\ team_ids[i] = t
                      /\ \A j \in 1..n : team_ids[j] = t => j <= i
    IN [t \in keys |-> fetched[Last(t)].value]

-----------------------------------------------------------------------------
(* The data source adapter (NFLApiClient) seen from the board: every call  *)
(* either returns a value or raises.                                       *)

Raises(empty) == [raises |-> TRUE, value |-> empty]
Returns(v) == [raises |-> FALSE, value |-> v]

\* get_all_teams(): raises, or returns a dict (empty when the fetch failed)
TeamsOutcomes(catalogs) == {Raises(<<>>)} \cup {Returns(TeamsMap(ids)) : ids \in catalogs}

\* populate_team_details(ids): raises, or fills in the detailed record of
\* every team whose own detail fetch succeeded (at most one team, one of
\* `failing`, fails)
DetailOutcomes(ids, failing) ==
    {Raises({})}
    \cup {Returns(ids \ failed) : failed \in {{}} \cup {{t} : t \in ids \cap failing}}

\* get_scoreboard_for_date(date) and get_team_schedule(team_id): raise, or
\* return a list of games
GamesOutcomes(lists) == {Raises(<<>>)} \cup {Returns(l) : l \in lists}

WithDetails(all_teams, detailed) ==
    [t \in DOMAIN all_teams |->
        NFLTeam(t, all_teams[t].has_detailed_record \/ t \in detailed)]

-----------------------------------------------------------------------------
(* NFLBoard._perform_basic_data_refresh and _perform_full_data_refresh.    *)
(* A result says what the call stored in the slot (stored: <<>> when it    *)
(* stored nothing), the adapter calls it issued, the call that failed, the *)
(* single items whose fetch failed, and whether an exception left the      *)
(* method.                                                                 *)

BuildResult(tier, stored, calls, failure, failed_items, escaped) ==
    [tier |-> tier, stored |-> stored, calls |-> calls, failure |-> failure,
     failed_items |-> failed_items, escaped |-> escaped]

\* variant of the except branch: the exception is raised again and the slot
\* is left as it was
ErrorResult_reraise(tier, message, calls, failure, failed_items) ==
    BuildResult(tier, <<>>, calls, failure, failed_items, TRUE)

\* the except branch: a new snapshot that carries only the error
ErrorResult(tier, message, calls, failure, failed_items) ==
    BuildResult(tier, <<add_error(NFLDataSnapshot, message)>>, calls, failure,
                failed_items, FALSE)

\* variant of the `if not all_teams` branch: add_error is left out
NoTeamsResult_no_error(tier, calls) ==
    BuildResult(tier, <<NFLDataSnapshot>>, calls, "no_teams", {}, FALSE)

\* the `if not all_teams` branch
NoTeamsResult(tier, calls) ==
    BuildResult(tier, <<add_error(NFLDataSnapshot, "Failed to fetch teams data")>>,
                calls, "no_teams", {}, FALSE)

perform_basic_data_refresh(team_ids, a) ==
    LET msg == "Basic data refresh failed"
        c1 == <<"get_all_teams">>
        c2 == Append(c1, "get_scoreboard_for_date")
    IN
    IF a.teams.raises THEN ErrorResult("basic", msg, c1, "get_all_teams", {})
    ELSE IF a.teams.value = <<>> THEN NoTeamsResult("basic", c1)
    ELSE IF a.today.raises
         THEN ErrorResult("basic", msg, c2, "get_scoreboard_for_date", {})
    ELSE
        LET snapshot ==
                [NFLDataSnapshot EXCEPT
                    !.all_teams = a.teams.value,
                    !.favorite_teams = FavoriteTeamsOf(a.teams.value, team_ids),
                    !.todays_games = a.today.value,
                    !.live_games = LiveGamesOf(a.today.value),
                    !.favorite_team_games = FavoriteGamesOf(a.today.value, team_ids)]
        IN BuildResult("basic", <<snapshot>>, c2, "none", {}, FALSE)

\* the index of the first get_team_schedule call that raises, 0 when none does
FirstRaising(fetched) ==
    IF \E i \in DOMAIN fetched : fetched[i].raises
    THEN CHOOSE i \in DOMAIN fetched :
            fetched[i].raises /\ \A j \in DOMAIN fetched : fetched[j].raises => i <= j
    ELSE 0

ScheduleCalls(n) == [i \in 1..n |-> "get_team_schedule"]

perform_full_data_refresh(team_ids, a) ==
    LET msg == "Full data refresh failed"
        c1 == <<"get_all_teams">>
        c2 == Append(c1, "populate_team_details")
        c3 == Append(c2, "get_scoreboard_for_date")
        c4 == Append(c3, "get_scoreboard_for_date")
        bad == FirstRaising(a.schedules)
        \* the teams whose own detail fetch failed inside populate_team_details
        missed == {<<"detail", t>> : t \in DOMAIN a.teams.value \ a.details.value}
    IN
    IF a.teams.raises THEN ErrorResult("full", msg, c1, "get_all_teams", {})
    ELSE IF a.teams.value = <<>> THEN NoTeamsResult("full", c1)
    ELSE IF a.details.raises
         THEN ErrorResult("full", msg, c2, "populate_team_details", {})
    ELSE IF a.today.raises
         THEN ErrorResult("full", msg, c3, "get_scoreboard_for_date", missed)
    ELSE IF a.yesterday.raises
         THEN ErrorResult("full", msg, c4, "get_scoreboard_for_date", missed)
    ELSE IF bad # 0
         THEN ErrorResult("full", msg, c4 \o ScheduleCalls(bad), "get_team_schedule",
                          missed \cup {<<"schedule", team_ids[bad]>>})
    ELSE
        LET all_teams == WithDetails(a.teams.value, a.details.value)
            all_recent_games == a.today.value \o a.yesterday.value
            snapshot ==
                [NFLDataSnapshot EXCEPT
                    !.all_teams = all_teams,
                    !.favorite_teams = FavoriteTeamsOf(all_teams, team_ids),
                    !.todays_games = a.today.value,
                    !.yesterdays_games = a.yesterday.value,
                    !.live_games = LiveGamesOf(a.today.value),
                    !.favorite_team_games = FavoriteGamesOf(all_recent_games, team_ids),
                    !.team_schedules = SchedulesOf(team_ids, a.schedules, Len(team_ids))]
        IN BuildResult("full", <<snapshot>>, c4 \o ScheduleCalls(Len(team_ids)),
                       "none", missed, FALSE)

-----------------------------------------------------------------------------
(* NFLDataSnapshot.get_games_for_display: favorite-team games plus, when   *)
(* show_all_games is set, the other games of today and yesterday.  The     *)
(* order of its result is either favorites first or scoreboard order.      *)

DisplayOrders == {"favorites_first", "scoreboard"}

get_games_for_display(snapshot, team_ids, show_all_games, order) ==
    LET recent == snapshot.todays_games \o snapshot.yesterdays_games
        Fav(g) == \E i \in DOMAIN team_ids : involves_team(g, team_ids[i])
        Other(g) == ~Fav(g)
        Shown(g) == show_all_games \/ Fav(g)
    IN IF order = "scoreboard"
       THEN SelectSeq(recent, Shown)
       ELSE snapshot.favorite_team_games
            \o (IF show_all_games THEN SelectSeq(recent, Other) ELSE <<>>)

-----------------------------------------------------------------------------
(* NFLBoard._refresh_display_games *)

GameItem(game) == [kind |-> "game", game |-> game]
\* variant: the summary loop appends the team id, not the team
TeamItem_id(team) == [kind |-> "str", value |-> team.team_id]

TeamItem(team) == [kind |-> "team", team |-> team]

MapSeq(s, F(_)) == [i \in DOMAIN s |-> F(s[i])]

\* the games of the list that should_show_previous_game keeps
filtered_games(games, clock, cutoff) ==
    LET Keep(g) == should_show_previous_game(g, clock, cutoff)
    IN SelectSeq(games, Keep)

\* variant: only games that have started count as a game today
teams_with_games_today_started(favorite_team_games, team_ids, clock) ==
    {team_ids[i] : i \in {j \in DOMAIN team_ids :
        \E k \in DOMAIN favorite_team_games :
            /\ favorite_team_games[k].date # NoDate
            /\ favorite_team_games[k].date = clock.day
            /\ favorite_team_games[k].status_state # "pre"
            /\ involves_team(favorite_team_games[k], team_ids[j])}}

\* the team ids added to teams_with_games_today by the loop over favorite_team_games
teams_with_games_today(favorite_team_games, team_ids, clock) ==
    {team_ids[i] : i \in {j \in DOMAIN team_ids :
        \E k \in DOMAIN favorite_team_games :
            /\ favorite_team_games[k].date # NoDate
            /\ favorite_team_games[k].date = clock.day
            /\ involves_team(favorite_team_games[k], team_ids[j])}}

\* the loop over config.team_ids that appends snapshot.favorite_teams[team_id]
teams_for_summaries(team_ids, with_games_today, favorite_teams) ==
    LET Summarised(t) == t \notin with_games_today /\ t \in DOMAIN favorite_teams
        Team(t) == favorite_teams[t]
    IN MapSeq(SelectSeq(team_ids, Summarised), Team)

\* variant: the other games are put first
display_items_others_first(favorite_team_games, other_games, summaries) ==
    MapSeq(other_games, GameItem)
    \o MapSeq(favorite_team_games, GameItem)
    \o MapSeq(summaries, TeamItem)

\* display_items: favorite games, then other games, then team summaries
display_items(favorite_team_games, other_games, summaries) ==
    MapSeq(favorite_team_games, GameItem)
    \o MapSeq(other_games, GameItem)
    \o MapSeq(summaries, TeamItem)

\* any(game.involves_team(team_id) for team_id in self.config.team_ids)
IsFavoriteOf(game, team_ids) ==
    \E i \in DOMAIN team_ids : involves_team(game, team_ids[i])

\* what one selection pass leaves: the new current_display_items and whether
\* last_layout_refresh was set
refresh_display_games(slot, cfg, clock, order) ==
    IF slot = <<>> \/ ~is_valid(slot[1])
    THEN [items |-> <<>>, refreshed |-> FALSE]
    ELSE
        LET snapshot == slot[1]
            games_to_display ==
                get_games_for_display(snapshot, cfg.team_ids, cfg.show_all_games, order)
            filtered ==
                filtered_games(games_to_display, clock, cfg.show_previous_games_until_time)
            Fav(g) == \E i \in DOMAIN cfg.team_ids : involves_team(g, cfg.team_ids[i])
            Other(g) == ~Fav(g)
            favorite_team_games == SelectSeq(filtered, Fav)
            other_games == SelectSeq(filtered, Other)
            with_games_today ==
                teams_with_games_today(favorite_team_games, cfg.team_ids, clock)
            summaries ==
                teams_for_summaries(cfg.team_ids, with_games_today, snapshot.favorite_teams)
        IN [items |-> display_items(favorite_team_games, other_games, summaries),
            refreshed |-> TRUE]

-----------------------------------------------------------------------------
(* State machine: values shared by the specifications *)

\* the threads that run builds: the constructing thread and one scheduler
\* worker per job
BuildThreads == {"constructor", "initial_full", "interval"}

\* a thread that runs no build
Idle == [pos |-> 0, tier |-> "none"]

\* the render thread outside render(): no selection pass has run.  pos is
\* where render() stands; snapshot, favorite_team_games, other_games and
\* summaries are the locals of _refresh_display_games; read_id is the id of
\* the object `snapshot` refers to and from_id that of the snapshot
\* current_display_items was selected from; index is the draw loop's position
NoSelection ==
    [pos |-> "idle", from_id |-> 0, read_id |-> 0, snapshot |-> <<>>,
     favorite_team_games |-> <<>>, other_games |-> <<>>, summaries |-> <<>>,
     index |-> 0]

\* no build, no selection pass, no draw; the job store is empty
ThreadsIdle ==
    /\ in_flight = [t \in BuildThreads |-> Idle]
    /\ selection = NoSelection
    /\ slot_id = 0
    /\ drawn = <<>>
    /\ job_store = <<>>
    /\ setup_calls = 0
    /\ board_config = <<>>
    /\ adapter = "flaky"
    /\ sleep_event = FALSE

Midnight == [hour |-> 0, minute |-> 0]

\* the time of day as a number of minutes, and the minutes between instants
MinuteOfDay(t) == t.hour * (MaxMinute + 1) + t.minute
MinutesPerDay == (MaxHour + 1) * (MaxMinute + 1)
MinutesBetween(earlier, later) ==
    (later.day - earlier.day) * MinutesPerDay
    + MinuteOfDay(later.time) - MinuteOfDay(earlier.time)

\* sequences over S of length 1..n, and lists of at most two games
SeqsUpTo(S, n) == UNION {[1..k -> S] : k \in 1..n}
ListsUpTo2(S) == {<<>>} \cup {<<g>> : g \in S} \cup {<<g, h>> : g, h \in S}
ListsUpTo1(S) == {<<>>} \cup {<<g>> : g \in S}

\* _parse_team_ids keeps the configured order and repeated ids
FavoriteLists == SeqsUpTo(FavoriteIds, MaxFavorites)

NoBuild ==
    [tier |-> "none", calls |-> <<>>, failure |-> "none", failed_items |-> {},
     escaped |-> FALSE, stores |-> 0, catalog |-> "none", had_valid |-> FALSE,
     by |-> "none"]

SlotValid == nfl_board_snapshot # <<>> /\ is_valid(nfl_board_snapshot[1])

CatalogOutcome(a) ==
    IF a.teams.raises THEN "raises"
    ELSE IF a.teams.value = <<>> THEN "empty" ELSE "ok"

\* a build called by `by` with adapter outcomes a: the slot is assigned what
\* the build stored
Build(result, a, by) ==
    /\ nfl_board_snapshot' =
          IF result.stored = <<>> THEN nfl_board_snapshot ELSE result.stored
    /\ last_build' =
          [tier |-> result.tier, calls |-> result.calls, failure |-> result.failure,
           failed_items |-> result.failed_items, escaped |-> result.escaped,
           stores |-> Len(result.stored), catalog |-> CatalogOutcome(a),
           had_valid |-> SlotValid, by |-> by]

\* a call the build never reached has no outcome: it stands as NotCalled
NotCalled == Returns(<<>>)

TeamsFailed(teams) == teams.raises \/ teams.value = <<>>

\* the outcomes of the get_team_schedule calls, one per entry of team_ids:
\* after a call that raises no further call is made
ScheduleOutcomes(team_ids, schedules) ==
    {s \in [DOMAIN team_ids -> GamesOutcomes(schedules)] :
        \A i \in DOMAIN s :
            (\E j \in 1..(i - 1) : s[j].raises) => s[i] = NotCalled}

BasicDataRefresh(by, catalogs, todays) ==
    \E teams \in TeamsOutcomes(catalogs) :
    \E today \in IF TeamsFailed(teams) THEN {NotCalled} ELSE GamesOutcomes(todays) :
        LET a == [teams |-> teams, today |-> today]
        IN Build(perform_basic_data_refresh(config.team_ids, a), a, by)

FullDataRefresh(by, catalogs, failing, todays, yesterdays, schedules) ==
    \E teams \in TeamsOutcomes(catalogs) :
    \E details \in IF TeamsFailed(teams) THEN {Returns({})}
                   ELSE DetailOutcomes(DOMAIN teams.value, failing) :
    \E today \in IF TeamsFailed(teams) \/ details.raises THEN {NotCalled}
                 ELSE GamesOutcomes(todays) :
    \E yesterday \in IF TeamsFailed(teams) \/ details.raises \/ today.raises
                     THEN {NotCalled} ELSE GamesOutcomes(yesterdays) :
    \E scheds \in IF TeamsFailed(teams) \/ details.raises \/ today.raises
                     \/ yesterday.raises
                  THEN {[i \in DOMAIN config.team_ids |-> NotCalled]}
                  ELSE ScheduleOutcomes(config.team_ids, schedules) :
        LET a == [teams |-> teams, details |-> details, today |-> today,
                  yesterday |-> yesterday, schedules |-> scheds]
        IN Build(perform_full_data_refresh(config.team_ids, a), a, by)

-----------------------------------------------------------------------------
(* SpecVisibility: should_show_previous_game applied to one game *)

VisibilityGames ==
    {NFLGame("A", "X", d, s) : d \in Days \cup {NoDate}, s \in StatusStates}

InitVisibility ==
    /\ config \in [team_ids : {<<"A">>}, show_all_games : {FALSE},
                   show_previous_games_until_time : Times]
    /\ has_scheduler = TRUE
    /\ now \in [day : Days, time : Times]
    /\ nfl_board_snapshot = <<>>
    /\ current_display_items = <<>>
    /\ last_layout_refresh = <<>>
    /\ jobs = {}
    /\ pc = "running"
    /\ last_build = NoBuild
    /\ last_render = "none"
    /\ probe = <<>>
    /\ ThreadsIdle

ShowPreviousGame ==
    /\ \E g \in VisibilityGames :
          probe' = <<[game |-> g,
                      result |-> should_show_previous_game(
                                    g, now, config.show_previous_games_until_time)]>>
    /\ UNCHANGED <<thread_vars, config, has_scheduler, now, nfl_board_snapshot,
                   current_display_items, last_layout_refresh, jobs, pc,
                   last_build, last_render>>

NextVisibility == ShowPreviousGame

SpecVisibility == InitVisibility /\ [][NextVisibility]_vars

-----------------------------------------------------------------------------
(* SpecResult: NFLGame.result_token applied to one game and one team id    *)

MaxScore == 2

\* home_score, away_score: Optional[int]; result_token: Optional[str]
NoScore == -1
NoToken == "None"
Scores == 0..MaxScore

\* an NFLGame with the fields result_token reads
ScoredGame(home, away, is_completed, home_score, away_score) ==
    [home_team |-> home, away_team |-> away, is_completed |-> is_completed,
     home_score |-> home_score, away_score |-> away_score]

\* variant: the home team's score is taken as the score of whichever team
\* is asked for
result_token_home_score(game, team_id) ==
    IF ~game.is_completed \/ game.home_score = NoScore \/ game.away_score = NoScore
    THEN NoToken
    ELSE IF game.home_team # team_id /\ game.away_team # team_id THEN NoToken
    ELSE IF game.home_score > game.away_score THEN "W"
    ELSE IF game.home_score < game.away_score THEN "L"
    ELSE "T"

\* NFLGame.result_token
result_token(game, team_id) ==
    IF ~game.is_completed \/ game.home_score = NoScore \/ game.away_score = NoScore
    THEN NoToken
    ELSE IF game.home_team # team_id /\ game.away_team # team_id THEN NoToken
    ELSE LET our_score ==
                 IF game.home_team = team_id THEN game.home_score ELSE game.away_score
             opponent_score ==
                 IF game.home_team = team_id THEN game.away_score ELSE game.home_score
         IN IF our_score > opponent_score THEN "W"
            ELSE IF our_score < opponent_score THEN "L"
            ELSE "T"

ResultGames ==
    {ScoredGame(m[1], m[2], c, h, a) :
        m \in {<<"A", "X">>, <<"X", "B">>}, c \in BOOLEAN,
        h \in Scores \cup {NoScore}, a \in Scores \cup {NoScore}}

InitResult ==
    /\ config \in [team_ids : {<<"A">>}, show_all_games : {FALSE},
                   show_previous_games_until_time : {Midnight}]
    /\ has_scheduler = TRUE
    /\ now = [day |-> 0, time |-> Midnight]
    /\ nfl_board_snapshot = <<>>
    /\ current_display_items = <<>>
    /\ last_layout_refresh = <<>>
    /\ jobs = {}
    /\ pc = "running"
    /\ last_build = NoBuild
    /\ last_render = "none"
    /\ probe = <<>>
    /\ ThreadsIdle

ResultToken ==
    /\ \E g \in ResultGames : \E t \in {"A", "B", "X"} :
          probe' = <<[game |-> g, team_id |-> t,
                      result |-> result_token(g, t),
                      home_result |-> result_token(g, g.home_team),
                      away_result |-> result_token(g, g.away_team)]>>
    /\ UNCHANGED <<thread_vars, config, has_scheduler, now, nfl_board_snapshot,
                   current_display_items, last_layout_refresh, jobs, pc,
                   last_build, last_render>>

\* NFLGame.get_opposing_team: the other team of the game, None for a team
\* that does not take part in it
get_opposing_team(game, team_id) ==
    IF game.home_team = team_id THEN game.away_team
    ELSE IF game.away_team = team_id THEN game.home_team
    ELSE NoToken

\* NFLBoard._format_last_game_display for a game that is given: the parts of
\* the text in order.  The comparison of a score that is None raises
\* TypeError.
format_last_game_display(game, team_id) ==
    LET opponent == get_opposing_team(game, team_id)
        at_home == game.home_team = team_id
        team_score == IF at_home THEN game.home_score ELSE game.away_score
        opponent_score == IF at_home THEN game.away_score ELSE game.home_score
        opponent_text == <<IF at_home THEN "vs" ELSE "@", opponent>>
        result == IF team_score > opponent_score THEN "W"
                  ELSE IF team_score < opponent_score THEN "L"
                  ELSE "T"
    IN IF opponent = NoToken THEN Returns(<<"TBD">>)
       ELSE IF team_score = NoScore \/ opponent_score = NoScore THEN Raises(<<>>)
       ELSE Returns(<<result, team_score, "-", opponent_score>> \o opponent_text)

FormatLastGameDisplay ==
    /\ \E g \in ResultGames : \E t \in {"A", "B", "X"} :
          probe' = <<[game |-> g, team_id |-> t,
                      result |-> result_token(g, t),
                      home_result |-> result_token(g, g.home_team),
                      away_result |-> result_token(g, g.away_team),
                      display |-> format_last_game_display(g, t)]>>
    /\ UNCHANGED <<thread_vars, config, has_scheduler, now, nfl_board_snapshot,
                   current_display_items, last_layout_refresh, jobs, pc,
                   last_build, last_render>>

NextResult == ResultToken \/ FormatLastGameDisplay

SpecResult == InitResult /\ [][NextResult]_vars

-----------------------------------------------------------------------------
(* SpecSelect: one selection pass (_refresh_display_games) over a snapshot *)
(* that a build has stored, for every configuration.  The clock stands one *)
(* minute before the cutoff or at the cutoff.                              *)

SelectMatchups == {<<"A", "X">>, <<"X", "B">>, <<"X", "Y">>}

\* the games a scoreboard may hold on `day`: dated yesterday, today,
\* tomorrow or not at all, in every state
SelectGames(day) ==
    {NFLGame(m[1], m[2], d, s) :
        m \in SelectMatchups, d \in {NoDate, day - 1, day, day + 1}, s \in StatusStates}

SelectCutoff == [hour |-> MaxHour, minute |-> 0]
SelectTimes == {[hour |-> MaxHour - 1, minute |-> MaxMinute], SelectCutoff}
SelectDay == MaxDay - 1

SelectCatalogs == {TeamIds, TeamIds \ {"B"}}

\* the snapshots that builds with a working adapter store: a basic build
\* over today's scoreboard, a full build over today's and yesterday's
BuiltSnapshots(team_ids, day) ==
    {perform_basic_data_refresh(team_ids,
        [teams |-> Returns(TeamsMap(ids)), today |-> Returns(today)]).stored :
        ids \in SelectCatalogs, today \in ListsUpTo1(SelectGames(day))}
    \cup
    {perform_full_data_refresh(team_ids,
        [teams |-> Returns(TeamsMap(ids)), details |-> Returns(ids),
         today |-> Returns(today), yesterday |-> Returns(yesterday),
         schedules |-> [i \in DOMAIN team_ids |-> Returns(<<>>)]]).stored :
        ids \in SelectCatalogs, today \in ListsUpTo1(SelectGames(day)),
        yesterday \in ListsUpTo1(SelectGames(day))}

InitSelect ==
    /\ config \in [team_ids : FavoriteLists, show_all_games : BOOLEAN,
                   show_previous_games_until_time : {SelectCutoff}]
    /\ has_scheduler = TRUE
    /\ now \in [day : {SelectDay}, time : SelectTimes]
    /\ nfl_board_snapshot \in BuiltSnapshots(config.team_ids, now.day)
    /\ current_display_items = <<>>
    /\ last_layout_refresh = <<>>
    /\ jobs = {"interval"}
    /\ pc = "running"
    /\ last_build = NoBuild
    /\ last_render = "none"
    /\ probe = <<>>
    /\ ThreadsIdle

\* _refresh_display_games, as render() calls it
RefreshDisplayGames ==
    /\ pc = "running"
    /\ \E order \in DisplayOrders :
          LET pass == refresh_display_games(nfl_board_snapshot, config, now, order)
          IN /\ current_display_items' = pass.items
             /\ last_layout_refresh' =
                   IF pass.refreshed THEN <<now>> ELSE last_layout_refresh
    /\ UNCHANGED <<thread_vars, config, has_scheduler, now, nfl_board_snapshot, jobs, pc,
                   last_build, last_render, probe>>

NextSelect == RefreshDisplayGames

SpecSelect == InitSelect /\ [][NextSelect]_vars

-----------------------------------------------------------------------------
(* SpecBuild: one build of either tier, for every configuration and every  *)
(* outcome of every adapter call.                                          *)

BuildCatalogs == {{}, TeamIds, TeamIds \ {"B"}}

BuildTodays(day) ==
    ListsUpTo2({NFLGame("A", "X", day, "in"), NFLGame("X", "B", day, "pre"),
                NFLGame("X", "Y", day, "post")})

BuildYesterdays(day) ==
    ListsUpTo1({NFLGame("A", "X", day - 1, "post"), NFLGame("X", "Y", day - 1, "post"),
                NFLGame("X", "B", day - 1, "in")})

BuildSchedules(day) == ListsUpTo1({NFLGame("A", "B", day + 1, "pre")})

InitBuild ==
    /\ config \in [team_ids : FavoriteLists, show_all_games : {FALSE},
                   show_previous_games_until_time : {SelectCutoff}]
    /\ has_scheduler = TRUE
    /\ now = [day |-> SelectDay, time |-> Midnight]
    /\ nfl_board_snapshot = <<>>
    /\ current_display_items = <<>>
    /\ last_layout_refresh = <<>>
    /\ jobs = {"interval"}
    /\ pc = "running"
    /\ last_build = NoBuild
    /\ last_render = "none"
    /\ probe = <<>>
    /\ ThreadsIdle

BuildBasicTier ==
    /\ last_build.tier = "none"
    /\ BasicDataRefresh("constructor", BuildCatalogs, BuildTodays(now.day))
    /\ UNCHANGED <<thread_vars, config, has_scheduler, now, current_display_items,
                   last_layout_refresh, jobs, pc, last_render, probe>>

BuildFullTier ==
    /\ last_build.tier = "none"
    /\ FullDataRefresh("interval", BuildCatalogs, TeamIds, BuildTodays(now.day),
                       BuildYesterdays(now.day), BuildSchedules(now.day))
    /\ UNCHANGED <<thread_vars, config, has_scheduler, now, current_display_items,
                   last_layout_refresh, jobs, pc, last_render, probe>>

NextBuild == BuildBasicTier \/ BuildFullTier

SpecBuild == InitBuild /\ [][NextBuild]_vars

-----------------------------------------------------------------------------
(* Spec: the board instance from its constructor to cleanup()              *)

RefreshSeconds == 30

BoardCatalogs == {{}, TeamIds}
BoardFailing == {}
BoardTodays(day) == ListsUpTo1({NFLGame("A", "X", day, "in")})
BoardYesterdays(day) == ListsUpTo1({NFLGame("X", "Y", day - 1, "post")})
BoardSchedules(day) == {<<>>}

Init ==
    /\ config \in [team_ids : {<<"A", "B">>}, show_all_games : {TRUE},
                   show_previous_games_until_time : {SelectCutoff}]
    /\ has_scheduler \in BOOLEAN
    /\ now = [day |-> MaxDay - 1, time |-> [hour |-> MaxHour, minute |-> 0]]
    /\ nfl_board_snapshot = <<>>
    /\ current_display_items = <<>>
    /\ last_layout_refresh = <<>>
    /\ jobs = {}
    /\ pc = "setup"
    /\ last_build = NoBuild
    /\ last_render = "none"
    /\ probe = <<>>
    /\ ThreadsIdle

\* __init__ line 135: _setup_data_refresh_schedule().  Without a scheduler it
\* calls self._perform_scheduled_data_refresh, which NFLBoard does not
\* define: the constructor raises.
SetupDataRefreshSchedule ==
    /\ pc = "setup"
    /\ IF ~has_scheduler
       THEN pc' = "raised" /\ UNCHANGED jobs
       ELSE /\ jobs' = jobs \cup {"interval"}
            /\ pc' = "load"
    /\ UNCHANGED <<thread_vars, config, has_scheduler, now, nfl_board_snapshot,
                   current_display_items, last_layout_refresh, last_build,
                   last_render, probe>>

\* variant: the constructor builds whatever the slot holds
InitialDataLoad_always ==
    /\ pc = "load"
    /\ pc' = "running"
    /\ BasicDataRefresh("constructor", BoardCatalogs, BoardTodays(now.day))
    /\ jobs' = jobs \cup {"initial_full"}
    /\ UNCHANGED <<thread_vars, config, has_scheduler, now, current_display_items,
                   last_layout_refresh, last_render, probe>>

\* __init__ lines 137-153: the synchronous basic build and the one-shot job
InitialDataLoad ==
    /\ pc = "load"
    /\ pc' = "running"
    /\ IF nfl_board_snapshot = <<>>
       THEN /\ BasicDataRefresh("constructor", BoardCatalogs, BoardTodays(now.day))
            /\ jobs' = jobs \cup {"initial_full"}
       ELSE UNCHANGED <<nfl_board_snapshot, last_build, jobs>>
    /\ UNCHANGED <<thread_vars, config, has_scheduler, now, current_display_items,
                   last_layout_refresh, last_render, probe>>

\* variant: the scheduler's jobs run the basic build
ScheduledFullRefresh_basic(by) ==
    BasicDataRefresh(by, BoardCatalogs, BoardTodays(now.day))

\* the build the scheduler's jobs run: _perform_full_data_refresh
ScheduledFullRefresh(by) ==
    FullDataRefresh(by, BoardCatalogs, BoardFailing, BoardTodays(now.day),
                    BoardYesterdays(now.day), BoardSchedules(now.day))

\* the scheduler runs the recurring job
IntervalJob ==
    /\ "interval" \in jobs
    /\ ScheduledFullRefresh("interval")
    /\ UNCHANGED <<thread_vars, config, has_scheduler, now, current_display_items,
                   last_layout_refresh, jobs, pc, last_render, probe>>

\* the scheduler runs the one-shot "date" job, which then is gone
InitialFullJob ==
    /\ "initial_full" \in jobs
    /\ ScheduledFullRefresh("initial_full")
    /\ jobs' = jobs \ {"initial_full"}
    /\ UNCHANGED <<thread_vars, config, has_scheduler, now, current_display_items,
                   last_layout_refresh, pc, last_render, probe>>

\* render() lines 201-215: the branch the display loop takes for one item
render_item(item) ==
    IF item.kind = "game"
    THEN IF is_live(item.game) THEN "live_game"
         ELSE IF is_final(item.game) THEN "completed_game"
         ELSE "upcoming_game"
    ELSE IF item.kind = "team" THEN "team_summary"
    ELSE "unknown"

\* variant: every render() runs the selection pass
should_refresh_display_games_always == TRUE

should_refresh_display_games ==
    \/ last_layout_refresh = <<>>
    \/ MinutesBetween(last_layout_refresh[1], now) * 60 >= RefreshSeconds

\* variant: the selection pass sets last_layout_refresh whatever it finds
Render_always_advances ==
    /\ pc = "running"
    /\ \E order \in DisplayOrders :
          LET pass == IF should_refresh_display_games
                      THEN refresh_display_games(nfl_board_snapshot, config, now, order)
                      ELSE [items |-> current_display_items, refreshed |-> FALSE]
          IN /\ current_display_items' = pass.items
             /\ last_layout_refresh' =
                   IF should_refresh_display_games THEN <<now>> ELSE last_layout_refresh
             /\ last_render' = IF pass.items = <<>> THEN "no_content" ELSE "items"
    /\ UNCHANGED <<thread_vars, config, has_scheduler, now, nfl_board_snapshot, jobs, pc,
                   last_build, probe>>

\* render(): the selection pass when due, then the items or the placeholder
Render ==
    /\ pc = "running"
    /\ \E order \in DisplayOrders :
          LET pass == IF should_refresh_display_games
                      THEN refresh_display_games(nfl_board_snapshot, config, now, order)
                      ELSE [items |-> current_display_items, refreshed |-> FALSE]
          IN /\ current_display_items' = pass.items
             /\ last_layout_refresh' =
                   IF pass.refreshed THEN <<now>> ELSE last_layout_refresh
             /\ last_render' = IF pass.items = <<>> THEN "no_content" ELSE "items"
    /\ UNCHANGED <<thread_vars, config, has_scheduler, now, nfl_board_snapshot, jobs, pc,
                   last_build, probe>>

\* one minute passes
NextMinute(clock) ==
    IF clock.time.minute < MaxMinute
    THEN [clock EXCEPT !.time.minute = @ + 1]
    ELSE IF clock.time.hour < MaxHour
    THEN [clock EXCEPT !.time = [hour |-> @.hour + 1, minute |-> 0]]
    ELSE [day |-> clock.day + 1, time |-> Midnight]

Tick ==
    /\ NextMinute(now).day <= MaxDay
    /\ now' = NextMinute(now)
    /\ UNCHANGED <<thread_vars, config, has_scheduler, nfl_board_snapshot, current_display_items,
                   last_layout_refresh, jobs, pc, last_build, last_render, probe>>

\* variant: cleanup() also empties the slot
Cleanup_clears_slot ==
    /\ pc = "running"
    /\ pc' = "cleaned"
    /\ current_display_items' = <<>>
    /\ nfl_board_snapshot' = <<>>
    /\ jobs' = jobs \ {"interval"}
    /\ UNCHANGED <<thread_vars, config, has_scheduler, now,
                   last_layout_refresh, last_build, last_render, probe>>

\* cleanup(): the caches are cleared and the recurring job is removed
Cleanup ==
    /\ pc = "running"
    /\ pc' = "cleaned"
    /\ current_display_items' = <<>>
    /\ jobs' = jobs \ {"interval"}
    /\ UNCHANGED <<thread_vars, config, has_scheduler, now, nfl_board_snapshot,
                   last_layout_refresh, last_build, last_render, probe>>

Next ==
    \/ SetupDataRefreshSchedule
    \/ InitialDataLoad
    \/ IntervalJob
    \/ InitialFullJob
    \/ Render
    \/ Tick
    \/ Cleanup

Spec == Init /\ [][Next]_vars

-----------------------------------------------------------------------------
(* SpecExisting: a board constructed while the shared slot already holds a *)
(* snapshot that another consumer published, valid or with an error.       *)

ExistingSnapshots(team_ids, day) ==
    {perform_full_data_refresh(team_ids,
        [teams |-> Returns(TeamsMap(TeamIds)), details |-> Returns(TeamIds),
         today |-> Returns(today), yesterday |-> Returns(<<>>),
         schedules |-> [i \in DOMAIN team_ids |-> Returns(<<>>)]]).stored :
        today \in BoardTodays(day)}
    \cup {<<add_error(NFLDataSnapshot, "Full data refresh failed")>>}

InitExisting ==
    /\ config \in [team_ids : {<<"A", "B">>}, show_all_games : {TRUE},
                   show_previous_games_until_time : {SelectCutoff}]
    /\ has_scheduler \in BOOLEAN
    /\ now = [day |-> MaxDay - 1, time |-> [hour |-> MaxHour, minute |-> 0]]
    /\ nfl_board_snapshot \in ExistingSnapshots(config.team_ids, now.day)
    /\ current_display_items = <<>>
    /\ last_layout_refresh = <<>>
    /\ jobs = {}
    /\ pc = "setup"
    /\ last_build = NoBuild
    /\ last_render = "none"
    /\ probe = <<>>
    /\ ThreadsIdle

NextExisting ==
    \/ SetupDataRefreshSchedule
    \/ InitialDataLoad
    \/ IntervalJob
    \/ Render
    \/ Tick
    \/ Cleanup

SpecExisting == InitExisting /\ [][NextExisting]_vars

-----------------------------------------------------------------------------
(* SpecPlaceholder: render() over a slot that is empty, holds an error     *)
(* snapshot, holds a valid snapshot with nothing to display, or holds a    *)
(* valid snapshot with a game and summaries.                               *)

PlaceholderSlots(team_ids, day) ==
    {<<>>, <<add_error(NFLDataSnapshot, "Failed to fetch teams data")>>}
    \cup
    {perform_basic_data_refresh(team_ids,
        [teams |-> Returns(TeamsMap(ids)), today |-> Returns(today)]).stored :
        ids \in {TeamIds \ FavoriteIds, TeamIds}, today \in BoardTodays(day)}

InitPlaceholder ==
    /\ config \in [team_ids : {<<"A", "B">>}, show_all_games : {FALSE},
                   show_previous_games_until_time : {SelectCutoff}]
    /\ has_scheduler = TRUE
    /\ now = [day |-> MaxDay - 1, time |-> Midnight]
    /\ nfl_board_snapshot \in PlaceholderSlots(config.team_ids, now.day)
    /\ current_display_items = <<>>
    /\ last_layout_refresh = <<>>
    /\ jobs = {"interval"}
    /\ pc = "running"
    /\ last_build = NoBuild
    /\ last_render = "none"
    /\ probe = <<>>
    /\ ThreadsIdle

NextPlaceholder == Render \/ Tick

SpecPlaceholder == InitPlaceholder /\ [][NextPlaceholder]_vars

-----------------------------------------------------------------------------
(* NFLBoardConfig: the configuration values as Python reads them.  A str   *)
(* is the sequence of its characters, so that strip, split and int are     *)
(* computed as Python computes them.                                       *)

PyStr(chars) == [type |-> "str", chars |-> chars]
PyList(items) == [type |-> "list", items |-> items]
PyInt(n) == [type |-> "int", value |-> n]
PyNone == [type |-> "NoneType"]
PyDict == [type |-> "dict"]
\* the key is not in the configuration
Missing == [type |-> "missing"]

\* config_data.get(key, default)
get(value, default) == IF value = Missing THEN default ELSE value

DigitChars == <<"0", "1", "2", "3", "4", "5", "6", "7", "8", "9">>
IsDigit(c) == \E d \in DOMAIN DigitChars : DigitChars[d] = c
DigitValue(c) == (CHOOSE d \in DOMAIN DigitChars : DigitChars[d] = c) - 1

RECURSIVE Decimal(_)
Decimal(n) ==
    IF n < 10 THEN <<DigitChars[n + 1]>>
    ELSE Append(Decimal(n \div 10), DigitChars[(n % 10) + 1])

\* str(value)
str(value) ==
    IF value.type = "str" THEN value.chars
    ELSE IF value.type = "int" THEN Decimal(value.value)
    ELSE <<"N", "o", "n", "e">>

\* str.strip(): leading and trailing blanks removed
RECURSIVE strip(_)
strip(chars) ==
    IF chars = <<>> THEN chars
    ELSE IF Head(chars) = " " THEN strip(Tail(chars))
    ELSE IF chars[Len(chars)] = " " THEN strip(SubSeq(chars, 1, Len(chars) - 1))
    ELSE chars

\* str.split(sep): the fields between the separators, at least one field
RECURSIVE split(_, _)
split(chars, sep) ==
    IF \E i \in DOMAIN chars : chars[i] = sep
    THEN LET i == CHOOSE k \in DOMAIN chars :
                      chars[k] = sep /\ \A j \in 1..(k - 1) : chars[j] # sep
         IN <<SubSeq(chars, 1, i - 1)>> \o split(SubSeq(chars, i + 1, Len(chars)), sep)
    ELSE <<chars>>

RECURSIVE DecimalValue(_)
DecimalValue(digits) ==
    IF digits = <<>> THEN 0
    ELSE 10 * DecimalValue(SubSeq(digits, 1, Len(digits) - 1))
         + DigitValue(digits[Len(digits)])

\* int(str): blanks around the number and a sign are accepted; anything
\* else but digits raises ValueError
int(chars) ==
    LET text == strip(chars)
        signed == text # <<>> /\ text[1] \in {"+", "-"}
        digits == IF signed THEN Tail(text) ELSE text
        ok == digits # <<>> /\ \A i \in DOMAIN digits : IsDigit(digits[i])
    IN IF ~ok THEN Raises(0)
       ELSE Returns(IF signed /\ text[1] = "-" THEN 0 - DecimalValue(digits)
                    ELSE DecimalValue(digits))

\* variant: every entry is kept, blank or not
parse_team_ids_keep_blank(team_ids_config) ==
    IF team_ids_config.type = "str" THEN <<strip(team_ids_config.chars)>>
    ELSE IF team_ids_config.type # "list" THEN <<>>
    ELSE LET Id(tid) == strip(str(tid))
         IN MapSeq(team_ids_config.items, Id)

\* NFLBoardConfig._parse_team_ids
parse_team_ids(team_ids_config) ==
    LET as_list == IF team_ids_config.type = "str"
                   THEN PyList(<<team_ids_config>>) ELSE team_ids_config
        Kept(tid) == strip(str(tid)) # <<>>
        Id(tid) == strip(str(tid))
    IN IF as_list.type # "list" THEN <<>>
       ELSE MapSeq(SelectSeq(as_list.items, Kept), Id)

\* variant: datetime.time without its range check
datetime_time_unchecked(hour, minute) ==
    Returns([hour |-> hour, minute |-> minute])

\* datetime.time(hour, minute): ValueError outside 0..23 and 0..59
datetime_time(hour, minute) ==
    IF hour \in 0..23 /\ minute \in 0..59
    THEN Returns([hour |-> hour, minute |-> minute])
    ELSE Raises(<<>>)

\* NFLBoardConfig._parse_cutoff_time: a value without split() raises
\* AttributeError, a wrong number of fields, int() and time() raise
\* ValueError; both are caught and give time(6, 0)
parse_cutoff_time(time_string) ==
    LET default == [hour |-> 6, minute |-> 0]
    IN IF time_string.type # "str" THEN default
       ELSE LET fields == split(time_string.chars, ":")
            IN IF Len(fields) # 2 THEN default
               ELSE LET hour == int(fields[1])
                        minute == int(fields[2])
                    IN IF hour.raises \/ minute.raises THEN default
                       ELSE LET parsed == datetime_time(hour.value, minute.value)
                            IN IF parsed.raises THEN default ELSE parsed.value

\* the model's team ids are TLA+ strings: the string that spells chars
Text(chars) ==
    CASE chars = <<>> -> ""
      [] chars = <<"A">> -> "A"
      [] chars = <<"B">> -> "B"
      [] chars = <<"1", "2">> -> "12"
      [] chars = <<"N", "o", "n", "e">> -> "None"

-----------------------------------------------------------------------------
(* SpecConfig: the constructor, from the raw configuration to the end of   *)
(* __init__, for configurations with every kind of team_ids and            *)
(* show_previous_games_until value.                                        *)

RawTeamIds ==
    {Missing,
     PyNone,
     PyInt(5),
     PyDict,
     PyList(<<>>),
     PyStr(<<>>),
     PyStr(<<" ">>),
     PyList(<<PyStr(<<>>), PyStr(<<" ", " ">>)>>),
     PyStr(<<"A">>),
     PyStr(<<" ", "B", " ">>),
     PyList(<<PyStr(<<"A">>), PyStr(<<"B">>)>>),
     PyList(<<PyStr(<<" ">>), PyStr(<<"A">>)>>),
     PyList(<<PyStr(<<"B">>), PyStr(<<" ", "B">>)>>),
     PyList(<<PyNone>>),
     PyList(<<PyInt(12)>>)}

RawCutoffs ==
    {Missing,
     PyNone,
     PyInt(600),
     PyList(<<>>),
     PyStr(<<"0", "6", ":", "0", "0">>),
     PyStr(<<"2", "3", ":", "5", "9">>),
     PyStr(<<"0", "0", ":", "0", "0">>),
     PyStr(<<"7", ":", "5">>),
     PyStr(<<" ", "7", ":", "3", "0">>),
     PyStr(<<"+", "7", ":", "3", "0">>),
     PyStr(<<"2", "4", ":", "0", "0">>),
     PyStr(<<"1", "2", ":", "6", "0">>),
     PyStr(<<"-", "1", ":", "3", "0">>),
     PyStr(<<"0", "6", "0", "0">>),
     PyStr(<<"0", "6", ":", "0", "0", ":", "0", "0">>),
     PyStr(<<"a", "b", ":", "c", "d">>),
     PyStr(<<"1", "2", ":", "3", "x">>),
     PyStr(<<"6", ":">>),
     PyStr(<<>>)}

InitConfig ==
    /\ board_config \in [team_ids : RawTeamIds, show_previous_games_until : RawCutoffs]
    /\ config = <<>>
    /\ has_scheduler = TRUE
    /\ now = [day |-> MaxDay - 1, time |-> [hour |-> MaxHour, minute |-> 0]]
    /\ nfl_board_snapshot \in
          {<<>>, <<add_error(NFLDataSnapshot, "Full data refresh failed")>>}
    /\ current_display_items = <<>>
    /\ last_layout_refresh = <<>>
    /\ jobs = {}
    /\ pc = "config"
    /\ last_build = NoBuild
    /\ last_render = "none"
    /\ probe = <<>>
    /\ in_flight = [t \in BuildThreads |-> Idle]
    /\ selection = NoSelection
    /\ slot_id = 0
    /\ drawn = <<>>
    /\ job_store = <<>>
    /\ setup_calls = 0
    /\ adapter = "flaky"
    /\ sleep_event = FALSE

\* __init__ lines 109-113 with NFLBoardConfig.__init__: ValueError is raised
\* again when no team id is left, else the configuration is stored
ConstructConfig ==
    /\ pc = "config"
    /\ LET team_ids == parse_team_ids(get(board_config.team_ids, PyList(<<>>)))
           cutoff == parse_cutoff_time(
                         get(board_config.show_previous_games_until,
                             PyStr(<<"0", "6", ":", "0", "0">>)))
       IN IF team_ids = <<>>
          THEN pc' = "config_error" /\ UNCHANGED config
          ELSE /\ pc' = "setup"
               /\ config' = [team_ids |-> MapSeq(team_ids, Text),
                             show_all_games |-> FALSE,
                             show_previous_games_until_time |-> cutoff]
    /\ UNCHANGED <<has_scheduler, now, nfl_board_snapshot, current_display_items,
                   last_layout_refresh, jobs, last_build, last_render, probe,
                   thread_vars>>

NextConfig ==
    \/ ConstructConfig
    \/ SetupDataRefreshSchedule
    \/ InitialDataLoad

SpecConfig == InitConfig /\ [][NextConfig]_vars

-----------------------------------------------------------------------------
(* SpecLive: the recurring job of a constructed board over an adapter that *)
(* may fail until it recovers and works from then on.  The scheduler fires *)
(* the interval job again and again while it is registered, and the host   *)
(* calls render() again and again: both are weakly fair.                   *)

LiveCatalogs == {TeamIds, TeamIds \ FavoriteIds}
LiveTodays(day) == ListsUpTo1({NFLGame("X", "Y", day, "pre")})

InitLive ==
    /\ config \in [team_ids : {<<"A", "B">>}, show_all_games : {FALSE},
                   show_previous_games_until_time : {SelectCutoff}]
    /\ has_scheduler = TRUE
    /\ now = [day |-> MaxDay, time |-> Midnight]
    /\ nfl_board_snapshot \in
          {perform_basic_data_refresh(config.team_ids,
              [teams |-> teams, today |-> Returns(<<>>)]).stored :
              teams \in {Raises(<<>>), Returns(TeamsMap(TeamIds))}}
    /\ current_display_items = <<>>
    /\ last_layout_refresh = <<>>
    /\ jobs = {"interval"}
    /\ pc = "running"
    /\ last_build = NoBuild
    /\ last_render = "none"
    /\ probe = <<>>
    /\ in_flight = [t \in BuildThreads |-> Idle]
    /\ selection = NoSelection
    /\ slot_id = 0
    /\ drawn = <<>>
    /\ job_store = <<>>
    /\ setup_calls = 0
    /\ board_config = <<>>
    /\ adapter \in {"flaky", "works"}
    /\ sleep_event = FALSE

\* from now on no call of the adapter fails
AdapterRecovers ==
    /\ adapter = "flaky"
    /\ adapter' = "works"
    /\ UNCHANGED <<config, has_scheduler, now, nfl_board_snapshot, current_display_items,
                   last_layout_refresh, jobs, pc, last_build, last_render, probe,
                   in_flight, selection, slot_id, drawn, job_store, setup_calls,
                   board_config, sleep_event>>

\* variant: a build that fails takes the recurring job off the scheduler
FlakyIntervalJob_unschedules ==
    /\ adapter = "flaky"
    /\ "interval" \in jobs
    /\ FullDataRefresh("interval", LiveCatalogs \cup {{}}, {}, LiveTodays(now.day),
                       {<<>>}, {<<>>})
    /\ jobs' = IF last_build'.failure = "none" THEN jobs ELSE jobs \ {"interval"}
    /\ UNCHANGED <<thread_vars, config, has_scheduler, now, current_display_items,
                   last_layout_refresh, pc, last_render, probe>>

\* the recurring job fires while the adapter may fail: the full build ends
\* in any of its outcomes and the job stays registered
FlakyIntervalJob ==
    /\ adapter = "flaky"
    /\ "interval" \in jobs
    /\ FullDataRefresh("interval", LiveCatalogs \cup {{}}, {}, LiveTodays(now.day),
                       {<<>>}, {<<>>})
    /\ UNCHANGED <<thread_vars, config, has_scheduler, now, current_display_items,
                   last_layout_refresh, jobs, pc, last_render, probe>>

\* the recurring job fires while the adapter works: every call returns
WorkingIntervalJob ==
    /\ adapter = "works"
    /\ "interval" \in jobs
    /\ \E ids \in LiveCatalogs : \E today \in LiveTodays(now.day) :
          LET a == [teams |-> Returns(TeamsMap(ids)), details |-> Returns(ids),
                    today |-> Returns(today), yesterday |-> Returns(<<>>),
                    schedules |-> [i \in DOMAIN config.team_ids |-> Returns(<<>>)]]
          IN Build(perform_full_data_refresh(config.team_ids, a), a, "interval")
    /\ UNCHANGED <<thread_vars, config, has_scheduler, now, current_display_items,
                   last_layout_refresh, jobs, pc, last_render, probe>>

RefreshJob == FlakyIntervalJob \/ WorkingIntervalJob

NextLive ==
    \/ AdapterRecovers
    \/ FlakyIntervalJob
    \/ WorkingIntervalJob
    \/ Render
    \/ Tick
    \/ Cleanup

SpecLive ==
    InitLive /\ [][NextLive]_vars /\ WF_vars(RefreshJob) /\ WF_vars(Render)

-----------------------------------------------------------------------------
(* SpecThreads: the builds statement by statement, each on its own thread:  *)
(* the constructor's basic build and the full builds of the two scheduler   *)
(* jobs.  The scheduler runs at most one instance of a job at a time        *)
(* (max_instances=1); different jobs run on different workers.              *)

MaxStores == 3      \* no job starts once the slot has been assigned this often

\* the statements of _perform_basic_data_refresh that write the snapshot
\* under construction, and the assignment to the slot
basic_refresh_program ==
    <<"all_teams", "favorite_teams", "todays_games", "live_games",
      "favorite_team_games", "store">>

\* variant: the snapshot is assigned to the slot before it is populated
full_refresh_program_store_first ==
    <<"store", "all_teams", "populate_team_details", "favorite_teams", "todays_games",
      "yesterdays_games", "live_games", "favorite_team_games", "team_schedules">>

\* the statements of _perform_full_data_refresh
full_refresh_program ==
    <<"all_teams", "populate_team_details", "favorite_teams", "todays_games",
      "yesterdays_games", "live_games", "favorite_team_games", "team_schedules",
      "store">>

Program(tier) == IF tier = "basic" THEN basic_refresh_program ELSE full_refresh_program

\* the position of the assignment to the slot
StorePos(tier) == CHOOSE i \in DOMAIN Program(tier) : Program(tier)[i] = "store"

\* a thread that starts a build: `snapshot = NFLDataSnapshot()`; stores counts
\* the assignments to the slot the invocation has made
Started(tier, a) ==
    [pos |-> 1, tier |-> tier, a |-> a, snapshot |-> NFLDataSnapshot,
     published |-> FALSE, stores |-> 0]

\* variant: the except branch logs the error and returns
Except_logs_only(th) ==
    [th EXCEPT !.pos = Len(Program(th.tier)) + 1]

\* the except branch: a new object with the error, then the assignment
Except(th) ==
    [th EXCEPT !.snapshot = add_error(NFLDataSnapshot,
                                IF th.tier = "basic" THEN "Basic data refresh failed"
                                ELSE "Full data refresh failed"),
               !.published = FALSE,
               !.pos = StorePos(th.tier)]

Advance(th, snapshot) == [th EXCEPT !.snapshot = snapshot, !.pos = @ + 1]

\* the thread after its next statement
exec(th, team_ids) ==
    LET stmt == Program(th.tier)[th.pos]
        a == th.a
        snapshot == th.snapshot
    IN
    CASE stmt = "all_teams" ->
            IF a.teams.raises THEN Except(th)
            ELSE IF a.teams.value = <<>>
            THEN [th EXCEPT !.snapshot = add_error(@, "Failed to fetch teams data"),
                            !.pos = StorePos(th.tier)]
            ELSE Advance(th, [snapshot EXCEPT !.all_teams = a.teams.value])
      [] stmt = "populate_team_details" ->
            IF a.details.raises THEN Except(th)
            ELSE Advance(th, [snapshot EXCEPT
                                !.all_teams = WithDetails(@, a.details.value)])
      [] stmt = "favorite_teams" ->
            Advance(th, [snapshot EXCEPT
                            !.favorite_teams = FavoriteTeamsOf(snapshot.all_teams, team_ids)])
      [] stmt = "todays_games" ->
            IF a.today.raises THEN Except(th)
            ELSE Advance(th, [snapshot EXCEPT !.todays_games = a.today.value])
      [] stmt = "yesterdays_games" ->
            IF a.yesterday.raises THEN Except(th)
            ELSE Advance(th, [snapshot EXCEPT !.yesterdays_games = a.yesterday.value])
      [] stmt = "live_games" ->
            Advance(th, [snapshot EXCEPT !.live_games = LiveGamesOf(snapshot.todays_games)])
      [] stmt = "favorite_team_games" ->
            Advance(th, [snapshot EXCEPT
                            !.favorite_team_games =
                                FavoriteGamesOf(snapshot.todays_games
                                                \o snapshot.yesterdays_games, team_ids)])
      [] stmt = "team_schedules" ->
            IF FirstRaising(a.schedules) # 0 THEN Except(th)
            ELSE Advance(th, [snapshot EXCEPT
                                !.team_schedules =
                                    SchedulesOf(team_ids, a.schedules, Len(team_ids))])
      [] stmt = "store" ->
            [th EXCEPT !.published = TRUE, !.stores = @ + 1, !.pos = @ + 1]

\* the thread is done when it has run past its last statement
Finished(th) == th.pos > Len(Program(th.tier))

Running(t) == in_flight[t].pos # 0

\* what the adapter answers to the calls of one build
ThreadToday(day) == <<NFLGame("A", "X", day, "in")>>
ThreadOutcomes(team_ids, day) ==
    LET Answers(teams, details, today, schedule) ==
            [teams |-> teams, details |-> details, today |-> today,
             yesterday |-> Returns(<<>>),
             schedules |-> [i \in DOMAIN team_ids |->
                               IF i = 1 THEN schedule ELSE NotCalled]]
    IN {Answers(Raises(<<>>), Returns({}), NotCalled, NotCalled),
        Answers(Returns(<<>>), Returns({}), NotCalled, NotCalled),
        Answers(Returns(TeamsMap(TeamIds)), Returns(TeamIds),
                Returns(ThreadToday(day)), Returns(<<>>)),
        Answers(Returns(TeamsMap(TeamIds \ {"B"})), Returns(TeamIds \ {"B", "Y"}),
                Returns(<<>>), Raises(<<>>)),
        Answers(Returns(TeamsMap(TeamIds \ {"B"})), Returns(TeamIds \ {"B"}),
                Returns(<<>>), Returns(<<>>))}

InitThreads ==
    /\ config \in [team_ids : {<<"A", "B">>}, show_all_games : {TRUE},
                   show_previous_games_until_time : {SelectCutoff}]
    /\ has_scheduler = TRUE
    /\ now = [day |-> SelectDay, time |-> Midnight]
    /\ nfl_board_snapshot = <<>>
    /\ current_display_items = <<>>
    /\ last_layout_refresh = <<>>
    /\ jobs = {}
    /\ pc = "setup"
    /\ last_build = NoBuild
    /\ last_render = "none"
    /\ probe = <<>>
    /\ ThreadsIdle

ThreadsUnchanged ==
    UNCHANGED <<config, has_scheduler, now, current_display_items, last_layout_refresh,
                last_build, last_render, probe, selection, drawn, job_store,
                setup_calls, board_config, adapter, sleep_event>>

\* __init__ lines 138-141: with an empty slot the constructing thread enters
\* _perform_basic_data_refresh
ConstructorStartsBasicBuild ==
    /\ pc = "load"
    /\ IF nfl_board_snapshot = <<>>
       THEN /\ \E a \in ThreadOutcomes(config.team_ids, now.day) :
                  in_flight' = [in_flight EXCEPT !["constructor"] = Started("basic", a)]
            /\ pc' = "building"
       ELSE /\ pc' = "running"
            /\ UNCHANGED in_flight
    /\ UNCHANGED <<nfl_board_snapshot, slot_id, jobs>>
    /\ ThreadsUnchanged

\* __init__ lines 142-151: after the basic build the one-shot job is added
ConstructorAddsInitialFullJob ==
    /\ pc = "building"
    /\ ~Running("constructor")
    /\ pc' = "running"
    /\ jobs' = jobs \cup {"initial_full"}
    /\ UNCHANGED <<nfl_board_snapshot, slot_id, in_flight>>
    /\ ThreadsUnchanged

\* the scheduler starts a job on a worker: no instance of the job is running
StartJob ==
    /\ slot_id < MaxStores
    /\ \E job \in jobs :
          /\ ~Running(job)
          /\ \E a \in ThreadOutcomes(config.team_ids, now.day) :
                in_flight' = [in_flight EXCEPT ![job] = Started("full", a)]
          /\ jobs' = IF job = "initial_full" THEN jobs \ {job} ELSE jobs
    /\ UNCHANGED <<nfl_board_snapshot, slot_id, pc>>
    /\ ThreadsUnchanged

\* a building thread runs its next statement; a write to the object the
\* slot refers to is a write to what the slot's readers see
\* (last_build records the tier and the thread of the latest assignment)
BuildStep ==
    /\ \E t \in BuildThreads :
          /\ Running(t)
          /\ LET th == in_flight[t]
                 next == exec(th, config.team_ids)
                 stores == Program(th.tier)[th.pos] = "store"
             IN /\ in_flight' = [u \in BuildThreads |->
                       IF u = t THEN (IF Finished(next) THEN Idle ELSE next)
                       ELSE IF stores /\ Running(u)
                            THEN [in_flight[u] EXCEPT !.published = FALSE]
                            ELSE in_flight[u]]
                /\ nfl_board_snapshot' =
                      IF stores \/ (th.published /\ next.published)
                      THEN <<next.snapshot>>
                      ELSE nfl_board_snapshot
                /\ slot_id' = IF stores THEN slot_id + 1 ELSE slot_id
                /\ last_build' = IF stores
                                 THEN [last_build EXCEPT !.tier = th.tier, !.by = t]
                                 ELSE last_build
    /\ UNCHANGED <<jobs, pc>>
    /\ UNCHANGED <<config, has_scheduler, now, current_display_items, last_layout_refresh,
                   last_render, probe, selection, drawn, job_store, setup_calls,
                   board_config, adapter, sleep_event>>

NextThreads ==
    \/ SetupDataRefreshSchedule
    \/ ConstructorStartsBasicBuild
    \/ ConstructorAddsInitialFullJob
    \/ StartJob
    \/ BuildStep

SpecThreads == InitThreads /\ [][NextThreads]_vars

-----------------------------------------------------------------------------
(* SpecRender: render() statement by statement on the render thread (the    *)
(* selection pass, then the loop that draws the items) while the scheduler's *)
(* builds replace the snapshot in the slot.                                 *)

\* the snapshots that full builds store
RenderSnapshots(team_ids, day) ==
    {perform_full_data_refresh(team_ids, a).stored : a \in ThreadOutcomes(team_ids, day)}

\* variant: the snapshot is read from the slot again
pass_snapshot_reread(local, slot) == slot[1]

\* the snapshot the statements of a pass work on: the local `snapshot`
pass_snapshot(local, slot) == local[1]

InitRender ==
    /\ config \in [team_ids : {<<"A", "B">>}, show_all_games : BOOLEAN,
                   show_previous_games_until_time : {SelectCutoff}]
    /\ has_scheduler = TRUE
    /\ now = [day |-> SelectDay, time |-> Midnight]
    /\ nfl_board_snapshot \in RenderSnapshots(config.team_ids, now.day)
    /\ current_display_items = <<>>
    /\ last_layout_refresh = <<>>
    /\ jobs = {"interval"}
    /\ pc = "running"
    /\ last_build = NoBuild
    /\ last_render = "none"
    /\ probe = <<>>
    /\ in_flight = [t \in BuildThreads |-> Idle]
    /\ selection = NoSelection
    /\ slot_id = 1
    /\ drawn = <<>>
    /\ job_store = <<>>
    /\ setup_calls = 0
    /\ board_config = <<>>
    /\ adapter = "flaky"
    /\ sleep_event = FALSE

RenderUnchanged ==
    UNCHANGED <<config, has_scheduler, now, jobs, pc, last_build, probe, in_flight,
                job_store, setup_calls, board_config, adapter, sleep_event>>

\* a build of the recurring job assigns a new snapshot object to the slot
ReplaceSnapshot ==
    /\ "interval" \in jobs
    /\ slot_id < MaxStores
    /\ nfl_board_snapshot' \in RenderSnapshots(config.team_ids, now.day)
    /\ slot_id' = slot_id + 1
    /\ UNCHANGED <<current_display_items, last_layout_refresh, last_render,
                   selection, drawn>>
    /\ RenderUnchanged

\* render() lines 180-183 and _refresh_display_games lines 376-380: when a
\* pass is due the slot is read into `snapshot`
RenderStart ==
    /\ pc = "running"
    /\ selection.pos = "idle"
    /\ IF ~should_refresh_display_games
       THEN /\ selection' = [selection EXCEPT !.pos = "draw", !.index = 1]
            /\ UNCHANGED current_display_items
       ELSE IF nfl_board_snapshot = <<>> \/ ~is_valid(nfl_board_snapshot[1])
       THEN /\ selection' = [selection EXCEPT !.pos = "draw", !.index = 1]
            /\ current_display_items' = <<>>
       ELSE /\ selection' = [selection EXCEPT !.pos = "games",
                                              !.snapshot = nfl_board_snapshot,
                                              !.read_id = slot_id]
            /\ UNCHANGED current_display_items
    /\ UNCHANGED <<nfl_board_snapshot, slot_id, last_layout_refresh, last_render, drawn>>
    /\ RenderUnchanged

\* lines 382-402: the games, filtered and split
PassGames ==
    /\ selection.pos = "games"
    /\ \E order \in DisplayOrders :
          LET snapshot == pass_snapshot(selection.snapshot, nfl_board_snapshot)
              games_to_display ==
                  get_games_for_display(snapshot, config.team_ids,
                                        config.show_all_games, order)
              filtered == filtered_games(games_to_display, now,
                                         config.show_previous_games_until_time)
              Other(g) == ~IsFavoriteOf(g, config.team_ids)
              Fav(g) == IsFavoriteOf(g, config.team_ids)
          IN selection' = [selection EXCEPT
                              !.pos = "summaries",
                              !.favorite_team_games = SelectSeq(filtered, Fav),
                              !.other_games = SelectSeq(filtered, Other)]
    /\ UNCHANGED <<nfl_board_snapshot, slot_id, current_display_items,
                   last_layout_refresh, last_render, drawn>>
    /\ RenderUnchanged

\* lines 404-416: the teams that get a summary
PassSummaries ==
    /\ selection.pos = "summaries"
    /\ LET snapshot == pass_snapshot(selection.snapshot, nfl_board_snapshot)
           with_games_today ==
               teams_with_games_today(selection.favorite_team_games,
                                      config.team_ids, now)
       IN selection' = [selection EXCEPT
                           !.pos = "assign",
                           !.summaries = teams_for_summaries(config.team_ids,
                                             with_games_today, snapshot.favorite_teams)]
    /\ UNCHANGED <<nfl_board_snapshot, slot_id, current_display_items,
                   last_layout_refresh, last_render, drawn>>
    /\ RenderUnchanged

\* lines 418-425: the list is assigned
PassAssign ==
    /\ selection.pos = "assign"
    /\ current_display_items' =
          display_items(selection.favorite_team_games, selection.other_games,
                        selection.summaries)
    /\ last_layout_refresh' = <<now>>
    /\ selection' = [selection EXCEPT !.pos = "draw", !.index = 1,
                                      !.from_id = selection.read_id]
    /\ UNCHANGED <<nfl_board_snapshot, slot_id, last_render, drawn>>
    /\ RenderUnchanged

\* _render_team_summary lines 565-569: the schedule of a team is read from
\* the slot when the team is drawn
ScheduleDrawn(team) ==
    IF nfl_board_snapshot # <<>>
       /\ team.team_id \in DOMAIN nfl_board_snapshot[1].team_schedules
    THEN nfl_board_snapshot[1].team_schedules[team.team_id]
    ELSE <<>>

\* the event is set from outside the board (the framework passes it to
\* __init__, line 101); the board only reads it and waits on it
SetSleepEvent ==
    /\ ~sleep_event
    /\ sleep_event' = TRUE
    /\ UNCHANGED <<config, has_scheduler, now, nfl_board_snapshot, current_display_items,
                   last_layout_refresh, jobs, pc, last_build, last_render, probe,
                   in_flight, selection, slot_id, drawn, job_store, setup_calls,
                   board_config, adapter>>

\* variant: the loop draws every item whatever the event says
DrawItem_ignores_sleep_event ==
    /\ selection.pos = "draw"
    /\ IF selection.index > Len(current_display_items)
       THEN /\ selection' = [selection EXCEPT !.pos = "idle", !.index = 0]
            /\ last_render' = IF current_display_items = <<>>
                              THEN "no_content" ELSE "items"
            /\ UNCHANGED drawn
       ELSE LET item == current_display_items[selection.index]
            IN /\ drawn' =
                     <<[item |-> item,
                        item_from |-> selection.from_id,
                        slot_at_draw |-> slot_id,
                        schedule |-> IF item.kind = "team"
                                     THEN ScheduleDrawn(item.team) ELSE <<>>,
                        schedule_from |-> IF item.kind = "team"
                                          THEN slot_id ELSE selection.from_id]>>
               /\ selection' = [selection EXCEPT !.index = @ + 1]
               /\ UNCHANGED last_render
    /\ UNCHANGED <<nfl_board_snapshot, slot_id, current_display_items,
                   last_layout_refresh>>
    /\ RenderUnchanged

\* render() lines 188-215: the placeholder for an empty list; otherwise one
\* iteration of the loop: it ends after the last item, breaks when the sleep
\* event is set, and else draws the next item
DrawItem ==
    /\ selection.pos = "draw"
    /\ IF selection.index > Len(current_display_items)
       THEN /\ selection' = [selection EXCEPT !.pos = "idle", !.index = 0]
            /\ last_render' = IF current_display_items = <<>>
                              THEN "no_content" ELSE "items"
            /\ UNCHANGED drawn
       ELSE IF sleep_event
       THEN /\ selection' = [selection EXCEPT !.pos = "idle", !.index = 0]
            /\ last_render' = "items"
            /\ UNCHANGED drawn
       ELSE LET item == current_display_items[selection.index]
            IN /\ drawn' =
                     <<[item |-> item,
                        item_from |-> selection.from_id,
                        slot_at_draw |-> slot_id,
                        schedule |-> IF item.kind = "team"
                                     THEN ScheduleDrawn(item.team) ELSE <<>>,
                        schedule_from |-> IF item.kind = "team"
                                          THEN slot_id ELSE selection.from_id]>>
               /\ selection' = [selection EXCEPT !.index = @ + 1]
               /\ UNCHANGED last_render
    /\ UNCHANGED <<nfl_board_snapshot, slot_id, current_display_items,
                   last_layout_refresh>>
    /\ RenderUnchanged

NextRender ==
    \/ ReplaceSnapshot
    \/ RenderStart
    \/ PassGames
    \/ PassSummaries
    \/ PassAssign
    \/ DrawItem
    \/ SetSleepEvent

SpecRender == InitRender /\ [][NextRender]_vars

-----------------------------------------------------------------------------
(* SpecSchedule: the scheduler's job store under _setup_data_refresh_schedule, *)
(* cleanup(), the one-shot job and the jobs of other boards.                *)

MaxSetups == 3      \* calls of _setup_data_refresh_schedule on one instance

\* self._scheduled_job_id, assigned once in __init__, and the one-shot job's id
scheduled_job_id == "nfl_board_data_refresh"
initial_full_job_id == "nfl_board_data_refresh_initial_full"
OtherJobIds == {"clock_board", "weather_board"}

Job(id, trigger) == [id |-> id, trigger |-> trigger]

\* scheduler.get_job(id): whether the store holds a job with this id
get_job(store, id) == \E i \in DOMAIN store : store[i].id = id

\* scheduler.add_job(..., id, replace_existing=True): a job with the same id
\* is replaced, otherwise the job is added
add_job(store, job) ==
    IF get_job(store, job.id)
    THEN [i \in DOMAIN store |-> IF store[i].id = job.id THEN job ELSE store[i]]
    ELSE Append(store, job)

\* scheduler.remove_job(id)
remove_job(store, id) ==
    LET Other(job) == job.id # id
    IN SelectSeq(store, Other)

\* variant: the job is added without looking at the store
setup_data_refresh_schedule_always_add(store, id) ==
    Append(store, Job(id, "interval"))

\* _setup_data_refresh_schedule with a scheduler: the store it leaves
setup_data_refresh_schedule(store, id) ==
    IF ~get_job(store, id)
    THEN add_job(store, Job(id, "interval"))
    ELSE store

\* the jobs of this board in the store, by the names the other
\* specifications use
BoardJobs(store) ==
    {"interval" : i \in {j \in DOMAIN store : store[j].id = scheduled_job_id}}
    \cup {"initial_full" : i \in {j \in DOMAIN store : store[j].id = initial_full_job_id}}

\* an instance constructed on a scheduler that holds any jobs of other boards
InitSchedule ==
    /\ config \in [team_ids : {<<"A">>}, show_all_games : {FALSE},
                   show_previous_games_until_time : {SelectCutoff}]
    /\ has_scheduler = TRUE
    /\ now = [day |-> SelectDay, time |-> Midnight]
    /\ nfl_board_snapshot = <<>>
    /\ current_display_items = <<>>
    /\ last_layout_refresh = <<>>
    /\ jobs = {}
    /\ pc = "setup"
    /\ last_build = NoBuild
    /\ last_render = "none"
    /\ probe = <<>>
    /\ in_flight = [t \in BuildThreads |-> Idle]
    /\ selection = NoSelection
    /\ slot_id = 0
    /\ drawn = <<>>
    /\ job_store \in {<<>>} \cup {<<Job(o, "interval")>> : o \in OtherJobIds}
    /\ setup_calls = 0
    /\ board_config = <<>>
    /\ adapter = "flaky"
    /\ sleep_event = FALSE

ScheduleUnchanged ==
    UNCHANGED <<config, has_scheduler, now, nfl_board_snapshot, current_display_items,
                last_layout_refresh, last_build, last_render, probe, in_flight,
                selection, slot_id, drawn, board_config, adapter, sleep_event>>

\* a call of _setup_data_refresh_schedule: the first one by __init__
CallSetupDataRefreshSchedule ==
    /\ pc \in {"setup", "running"}
    /\ setup_calls < MaxSetups
    /\ setup_calls' = setup_calls + 1
    /\ job_store' = setup_data_refresh_schedule(job_store, scheduled_job_id)
    /\ jobs' = BoardJobs(job_store')
    /\ pc' = "running"
    /\ ScheduleUnchanged

\* __init__ lines 143-151: the one-shot job is added
AddInitialFullJob ==
    /\ pc = "running"
    /\ setup_calls = 1
    /\ ~get_job(job_store, initial_full_job_id)
    /\ job_store' = Append(job_store, Job(initial_full_job_id, "date"))
    /\ jobs' = BoardJobs(job_store')
    /\ UNCHANGED <<pc, setup_calls>>
    /\ ScheduleUnchanged

\* another board adds or removes its own job
OtherBoardJob ==
    /\ \E o \in OtherJobIds :
          job_store' = IF get_job(job_store, o)
                       THEN remove_job(job_store, o)
                       ELSE add_job(job_store, Job(o, "interval"))
    /\ UNCHANGED <<jobs, pc, setup_calls>>
    /\ ScheduleUnchanged

\* cleanup(): the job under the board's key is removed when it exists
CleanupSchedule ==
    /\ pc = "running"
    /\ pc' = "cleaned"
    /\ job_store' = IF get_job(job_store, scheduled_job_id)
                    THEN remove_job(job_store, scheduled_job_id)
                    ELSE job_store
    /\ jobs' = BoardJobs(job_store')
    /\ UNCHANGED setup_calls
    /\ ScheduleUnchanged

NextSchedule ==
    \/ CallSetupDataRefreshSchedule
    \/ AddInitialFullJob
    \/ OtherBoardJob
    \/ CleanupSchedule

SpecSchedule == InitSchedule /\ [][NextSchedule]_vars

-----------------------------------------------------------------------------
(* Properties of the selection pass (SpecSelect) *)

\* a selection pass over a valid snapshot has run
PassDone == last_layout_refresh # <<>>

Items == current_display_items
IsGameItem(i) == Items[i].kind = "game"
IsTeamItem(i) == Items[i].kind = "team"
ConfiguredIds == {config.team_ids[i] : i \in DOMAIN config.team_ids}
IsFavoriteGame(game) == \E t \in ConfiguredIds : involves_team(game, t)

\* C1: after a selection pass no configured favorite team is both a
\* participant of a game item and the subject of a team-summary item of
\* current_display_items.
C1_NoTeamInGameAndSummary ==
    PassDone =>
        \A i, j \in DOMAIN Items :
            IsGameItem(i) /\ IsTeamItem(j)
                => ~involves_team(Items[i].game, Items[j].team.team_id)

\* C2: the result of a selection pass is three blocks in this order: games
\* that involve a favorite team, games that involve none, team summaries;
\* no other game precedes a favorite game, no summary precedes a game.
C2_ThreeBlocksInOrder ==
    PassDone =>
        \A i, j \in DOMAIN Items :
            i < j =>
                /\ ~(IsTeamItem(i) /\ IsGameItem(j))
                /\ ~(/\ IsGameItem(i) /\ ~IsFavoriteGame(Items[i].game)
                     /\ IsGameItem(j) /\ IsFavoriteGame(Items[j].game))

\* a pass whose result holds a favorite game, then another game, then a summary
C2_Witness ==
    /\ PassDone
    /\ Len(Items) = 3
    /\ IsGameItem(1) /\ IsFavoriteGame(Items[1].game)
    /\ IsGameItem(2) /\ ~IsFavoriteGame(Items[2].game)
    /\ IsTeamItem(3)
    /\ nfl_board_snapshot[1].todays_games[1] = Items[2].game

SummaryCount(t) ==
    Cardinality({i \in DOMAIN Items : IsTeamItem(i) /\ Items[i].team.team_id = t})

\* a game item dated today that involves team t
HasGameToday(t) ==
    \E i \in DOMAIN Items :
        /\ IsGameItem(i)
        /\ Items[i].game.date # NoDate
        /\ Items[i].game.date = now.day
        /\ involves_team(Items[i].game, t)

SummaryIds == LET Id(item) == item.team.team_id
                  Team(item) == item.kind = "team"
              IN MapSeq(SelectSeq(Items, Team), Id)

\* the position of the first occurrence of t in the configured list
FirstConfigured(t) ==
    CHOOSE i \in DOMAIN config.team_ids :
        config.team_ids[i] = t /\ \A j \in 1..(i - 1) : config.team_ids[j] # t

\* C6: in a pass over a valid snapshot a configured favorite team gets a
\* team summary iff no surviving favorite game dated today involves it and it
\* is in the snapshot's favorite_teams map; each such team gets exactly one
\* summary, and the summaries are in configuration order.
C6_SummaryIffNoGameToday ==
    PassDone =>
        /\ \A t \in ConfiguredIds :
              SummaryCount(t) =
                  IF ~HasGameToday(t) /\ t \in DOMAIN nfl_board_snapshot[1].favorite_teams
                  THEN 1 ELSE 0
        /\ \A i, j \in DOMAIN SummaryIds :
              i < j => FirstConfigured(SummaryIds[i]) < FirstConfigured(SummaryIds[j])

-----------------------------------------------------------------------------
(* Properties of should_show_previous_game (SpecVisibility) *)

Probed == probe # <<>>
ProbedGame == probe[1].game
Cutoff == config.show_previous_games_until_time
DatedYesterday(game) == game.date # NoDate /\ game.date = now.day - 1

\* C3: for a final game dated exactly yesterday the result is true iff the
\* time of day is strictly before the cutoff: true one minute before the
\* cutoff, false at the cutoff and one minute after it.
C3_YesterdayFinalUntilCutoff ==
    (Probed /\ is_final(ProbedGame) /\ DatedYesterday(ProbedGame)) =>
        /\ probe[1].result <=> MinuteOfDay(now.time) < MinuteOfDay(Cutoff)
        /\ MinuteOfDay(now.time) = MinuteOfDay(Cutoff) - 1 => probe[1].result
        /\ MinuteOfDay(now.time) = MinuteOfDay(Cutoff) => ~probe[1].result
        /\ MinuteOfDay(now.time) = MinuteOfDay(Cutoff) + 1 => ~probe[1].result

\* yesterday's final game, shown one minute before a cutoff on the full hour
C3_Witness ==
    /\ Probed /\ is_final(ProbedGame) /\ DatedYesterday(ProbedGame)
    /\ Cutoff.minute = 0
    /\ MinuteOfDay(now.time) = MinuteOfDay(Cutoff) - 1
    /\ probe[1].result

\* C4: for a game that is not final the result is true whatever its date
\* (today, future, yesterday, older, absent), the time and the cutoff.
C4_NonFinalAlwaysShown ==
    (Probed /\ ~is_final(ProbedGame)) => probe[1].result

\* a game in progress dated yesterday, shown after the cutoff
C4_Witness ==
    /\ Probed /\ is_live(ProbedGame) /\ DatedYesterday(ProbedGame)
    /\ time_lt(Cutoff, now.time)
    /\ probe[1].result

\* C5: for a final game with a date the result is true when the date is
\* today or later and false when it is earlier than yesterday, whatever the
\* time of day and the cutoff.
C5_FinalTodayShownOlderHidden ==
    (Probed /\ is_final(ProbedGame) /\ ProbedGame.date # NoDate) =>
        /\ ProbedGame.date >= now.day => probe[1].result
        /\ ProbedGame.date < now.day - 1 => ~probe[1].result

\* a final game two days old, hidden although the cutoff is still ahead
C5_Witness ==
    /\ Probed /\ is_final(ProbedGame) /\ ProbedGame.date # NoDate
    /\ ProbedGame.date = now.day - 2
    /\ time_lt(now.time, Cutoff)
    /\ ~probe[1].result

-----------------------------------------------------------------------------
(* Properties of the builds (SpecBuild, Spec) *)

Built == last_build.tier # "none"
Slot == nfl_board_snapshot[1]
SlotHasError == nfl_board_snapshot # <<>> /\ Slot.errors # <<>>
Raised == last_build.failure \notin {"none", "no_teams"}

\* C7: when an adapter call of a build raises, the build returns normally,
\* the recurring job stays registered and the slot holds a snapshot with an
\* error marker; no exception leaves a build towards render().
C7_BuildNeverRaises ==
    /\ ~last_build.escaped
    /\ Raised => SlotHasError /\ last_build.stores = 1
    /\ pc \in {"load", "running"} => "interval" \in jobs

\* the recurring full build failed in a schedule fetch and is still registered
C7_Witness ==
    /\ last_build.tier = "full" /\ last_build.by = "interval"
    /\ last_build.failure = "get_team_schedule"
    /\ SlotHasError
    /\ "interval" \in jobs /\ pc = "running"

\* C8: when the team-catalog fetch fails (raises or returns no teams) the
\* stored snapshot carries an error marker and has empty teams, favorite
\* teams, games and schedules, and no other fetch is issued in the cycle.
C8_CatalogFailureAborts ==
    (Built /\ last_build.catalog \in {"raises", "empty"}) =>
        /\ SlotHasError
        /\ Slot = [NFLDataSnapshot EXCEPT !.errors = Slot.errors]
        /\ last_build.calls = <<"get_all_teams">>

\* a full build whose catalog came back empty
C8_Witness ==
    /\ last_build.tier = "full" /\ last_build.catalog = "empty"
    /\ SlotHasError /\ Slot.all_teams = <<>>

\* C9: in a full build whose catalog fetch succeeds, the failure of one
\* secondary fetch (one team's detail, one favorite team's schedule) is
\* isolated: the slot holds a valid snapshot without error marker, with the
\* teams map, the details of all other teams, the game lists and the
\* schedules of the other favorite teams.
C9_SecondaryFailureIsolated ==
    (/\ last_build.tier = "full" /\ last_build.catalog = "ok"
     /\ last_build.failure \in {"none", "get_team_schedule"}
     /\ Cardinality(last_build.failed_items) = 1) =>
        /\ SlotValid /\ ~SlotHasError
        /\ \A t \in DOMAIN Slot.all_teams :
              <<"detail", t>> \notin last_build.failed_items
                  => Slot.all_teams[t].has_detailed_record
        /\ \A t \in ConfiguredIds :
              <<"schedule", t>> \notin last_build.failed_items
                  => t \in DOMAIN Slot.team_schedules

\* C10: once the slot holds a valid snapshot, a later build that fails
\* leaves a valid snapshot in the slot.
C10_LastGoodRetained ==
    last_build.had_valid => SlotValid

-----------------------------------------------------------------------------
(* Properties of the constructor, the jobs and cleanup() (Spec) *)

\* C15: on cold start the constructor runs the basic build, then schedules
\* the one-shot full build and only then registers the recurring full build:
\* neither job is registered before the basic build has completed.
C15_RecurringJobAfterBasicBuild ==
    /\ "interval" \in jobs => Built
    /\ "initial_full" \in jobs => Built

\* a step in which the first selection pass over a snapshot completes
FirstPass == last_layout_refresh = <<>> /\ last_layout_refresh' # <<>>

\* C16: on cold start no selection pass happens before the basic build has
\* stored its snapshot, and the first pass yields every favorite-team game
\* of today's scoreboard that the visibility rule keeps.
C16_FirstPassShowsTodaysFavorites ==
    [][FirstPass =>
        /\ Built
        /\ nfl_board_snapshot # <<>>
        /\ \A k \in DOMAIN Slot.todays_games :
              LET game == Slot.todays_games[k]
              IN (/\ IsFavoriteGame(game)
                  /\ should_show_previous_game(game, now,
                                               config.show_previous_games_until_time))
                 => \E i \in DOMAIN current_display_items' :
                       current_display_items'[i] = GameItem(game)]_vars

\* the first pass, right after the basic build, shows today's game of team A
C16_Witness ==
    /\ PassDone /\ last_build.tier = "basic"
    /\ Len(Items) >= 1 /\ IsGameItem(1)
    /\ involves_team(Items[1].game, "A") /\ Items[1].game.date = now.day

\* C17: without a scheduler the constructor completes without raising and
\* leaves a snapshot in the slot.
C17_NoSchedulerBuildsSynchronously ==
    ~has_scheduler =>
        /\ pc # "raised"
        /\ pc \in {"running", "cleaned"} => nfl_board_snapshot # <<>>

\* C19: a basic build runs at most once per board, in the constructor and
\* only when the slot was empty; the builds of the scheduler's jobs are full
\* builds.
C19_BasicBuildOnlyInConstructor ==
    [][last_build' # last_build =>
        IF last_build'.tier = "basic"
        THEN /\ pc = "load" /\ pc' = "running"
             /\ nfl_board_snapshot = <<>>
             /\ last_build = NoBuild
             /\ last_build'.by = "constructor"
        ELSE /\ last_build'.tier = "full"
             /\ last_build'.by \in {"initial_full", "interval"}
             /\ last_build'.by = "interval" => "interval" \in jobs]_vars

\* the recurring job has run a full build after construction
C19_Witness ==
    /\ pc = "running"
    /\ last_build.tier = "full" /\ last_build.by = "interval"
    /\ "initial_full" \in jobs

\* C20: after cleanup() the scheduler holds no job of this board, neither
\* the recurring one nor the one-shot initial full build, and
\* current_display_items is empty.
C20_NoJobAfterCleanup ==
    pc = "cleaned" => jobs = {} /\ current_display_items = <<>>

-----------------------------------------------------------------------------
(* Properties of the job store (SpecSchedule) *)

\* the number of jobs the store holds under an id
JobCount(id) == Cardinality({i \in DOMAIN job_store : job_store[i].id = id})

\* C18: after one or any number of calls of _setup_data_refresh_schedule on
\* one board the scheduler holds exactly one job under the board's key, an
\* interval job; no call ever leaves two.
C18_RegistrationIdempotent ==
    /\ JobCount(scheduled_job_id) <= 1
    /\ (setup_calls >= 1 /\ pc = "running") =>
          /\ JobCount(scheduled_job_id) = 1
          /\ \A i \in DOMAIN job_store :
                job_store[i].id = scheduled_job_id => job_store[i].trigger = "interval"

\* three calls on a store that also holds other jobs: still one job
C18_Witness ==
    /\ setup_calls >= 3 /\ pc = "running"
    /\ JobCount(scheduled_job_id) = 1
    /\ Len(job_store) >= 3

-----------------------------------------------------------------------------
(* Properties of the building threads (SpecThreads) *)

\* the snapshot the build of a thread stores when it runs alone
CompleteResult(th) ==
    (IF th.tier = "basic"
     THEN perform_basic_data_refresh(config.team_ids, th.a)
     ELSE perform_full_data_refresh(config.team_ids, th.a)).stored

\* C11: what a reader of the slot sees changes only when a build assigns its
\* snapshot, the assignment is the build's last statement, and the snapshot
\* is then fully populated: a reader sees the complete old snapshot or the
\* complete new one.
C11_ReplacementAtomic ==
    [][nfl_board_snapshot' # nfl_board_snapshot =>
        \E t \in BuildThreads :
            /\ Running(t)
            /\ in_flight'[t] = Idle
            /\ nfl_board_snapshot' = CompleteResult(in_flight[t])]_vars

\* a full build has replaced a valid snapshot while another build is under way
C11_Witness ==
    /\ slot_id >= 2
    /\ SlotValid /\ Slot.yesterdays_games = <<>> /\ DOMAIN Slot.team_schedules # {}
    /\ \E t \in BuildThreads : Running(t) /\ in_flight[t].pos > 3

\* C12: at most one build of the board is in flight at any time.
C12_OneBuildInFlight ==
    Cardinality({t \in BuildThreads : Running(t)}) <= 1

-----------------------------------------------------------------------------
(* Properties of the render thread (SpecRender) *)

\* C13: an item that render() draws belongs to the snapshot the slot holds
\* when it is drawn, and the schedule drawn with a team summary comes from
\* the snapshot the team item was selected from.
C13_ItemFromCurrentSnapshot ==
    drawn # <<>> =>
        /\ drawn[1].item_from = drawn[1].slot_at_draw
        /\ drawn[1].schedule_from = drawn[1].item_from

\* C14: a selection pass reads the slot once, at its start: the list it
\* assigns is the list selected from the snapshot it read then, whatever
\* the slot holds by the time the pass ends.
C14_PassUsesOneSnapshot ==
    [][(selection.pos = "assign" /\ selection'.pos = "draw") =>
        \E order \in DisplayOrders :
            current_display_items' =
                refresh_display_games(selection.snapshot, config, now, order).items]_vars

\* a pass has ended with a summary after the slot was replaced by a snapshot
\* that has no favorite teams
C14_Witness ==
    /\ selection.pos = "draw"
    /\ selection.from_id # 0 /\ selection.from_id < slot_id
    /\ \E i \in DOMAIN Items : IsTeamItem(i)
    /\ nfl_board_snapshot[1].favorite_teams = <<>>

-----------------------------------------------------------------------------
(* Further properties of the selection pass (SpecSelect) *)

\* a favorite-team game of the snapshot that is dated today, is in state s
\* and involves team t
SnapshotGameToday(t, s) ==
    \E k \in DOMAIN nfl_board_snapshot[1].favorite_team_games :
        LET game == nfl_board_snapshot[1].favorite_team_games[k]
        IN /\ game.date # NoDate
           /\ game.date = now.day
           /\ game.status_state = s
           /\ involves_team(game, t)

\* C27: after a selection pass a configured favorite team that has a
\* favorite-team game dated today has no team-summary item, whether that
\* game is scheduled, live or final.
C27_GameTodayNoSummary ==
    PassDone =>
        \A t \in ConfiguredIds : \A s \in StatusStates :
            SnapshotGameToday(t, s) => SummaryCount(t) = 0

\* a pass over a snapshot whose only game of team A is scheduled for today
\* and has not started; A is in the favorite_teams map and B, with no game,
\* has a summary
C27_Witness ==
    /\ PassDone
    /\ SnapshotGameToday("A", "pre")
    /\ "A" \in DOMAIN nfl_board_snapshot[1].favorite_teams
    /\ SummaryCount("A") = 0
    /\ SummaryCount("B") = 1

-----------------------------------------------------------------------------
(* Properties of the display list over the board's life (Spec) *)

\* C30: in every reachable state every element of current_display_items is
\* a game or a team: the display loop of render() takes the game branch or
\* the team branch for it, never the "unknown item type" branch.
C30_ItemsAreGamesOrTeams ==
    \A i \in DOMAIN Items :
        /\ IsGameItem(i) \/ IsTeamItem(i)
        /\ render_item(Items[i]) # "unknown"

\* a pass has left a list that holds a game and a team summary, and render()
\* has shown it
C30_Witness ==
    /\ last_render = "items"
    /\ \E i, j \in DOMAIN Items : IsGameItem(i) /\ IsTeamItem(j)

-----------------------------------------------------------------------------
(* Properties of the stored game lists (SpecBuild) *)

\* the build stored a snapshot it completed
Succeeded(tier) ==
    /\ last_build.tier = tier
    /\ last_build.failure = "none"
    /\ last_build.catalog = "ok"

FavoriteOnly(games) == SelectSeq(games, IsFavoriteGame)
LiveOnly(games) == SelectSeq(games, is_live)
Elements(games) == {games[i] : i \in DOMAIN games}

\* C29: a successful basic build stores as favorite_team_games exactly the
\* favorite-team games of today's scoreboard, in its order, and leaves
\* yesterdays_games empty; a successful full build stores today's
\* favorite-team games followed by yesterday's; in both tiers live_games is
\* exactly the live games of today's list, so no game that only yesterday's
\* list holds is in it.
C29_GameListsOfBuild ==
    /\ Succeeded("basic") =>
          /\ Slot.favorite_team_games = FavoriteOnly(Slot.todays_games)
          /\ Slot.yesterdays_games = <<>>
    /\ Succeeded("full") =>
          Slot.favorite_team_games =
              FavoriteOnly(Slot.todays_games) \o FavoriteOnly(Slot.yesterdays_games)
    /\ (Succeeded("basic") \/ Succeeded("full")) =>
          /\ Slot.live_games = LiveOnly(Slot.todays_games)
          /\ \A g \in Elements(Slot.yesterdays_games) \ Elements(Slot.todays_games) :
                g \notin Elements(Slot.live_games)

\* a full build over a today's list with a live favorite game and a final
\* game of other teams, and a yesterday's list with a favorite game that is
\* still live
C29_Witness ==
    /\ Succeeded("full")
    /\ Len(Slot.todays_games) = 2
    /\ Len(Slot.live_games) = 1
    /\ Len(Slot.favorite_team_games) = 2
    /\ Len(Slot.yesterdays_games) = 1
    /\ is_live(Slot.yesterdays_games[1])
    /\ Slot.favorite_team_games[2] = Slot.yesterdays_games[1]

\* a step in which one of the builds runs
BuildRuns == InitialDataLoad \/ IntervalJob \/ InitialFullJob

\* C28: the slot is written only by the builds: every step that changes the
\* slot or the snapshot it holds is a step of a build; render() with its
\* selection pass and its renderers, and cleanup(), leave both as they were.
C28_SlotWrittenOnlyByBuilds ==
    [][nfl_board_snapshot' # nfl_board_snapshot => BuildRuns]_vars

\* render() has drawn a list with a team summary and cleanup() has run while
\* the slot holds a snapshot
C28_Witness ==
    /\ pc = "cleaned"
    /\ last_render = "items"
    /\ nfl_board_snapshot # <<>>
    /\ nfl_board_snapshot[1].favorite_teams # <<>>

-----------------------------------------------------------------------------
(* Properties of construction over an existing snapshot (SpecExisting) *)

\* C26: when the slot holds a snapshot, valid or not, the steps of the
\* constructor run no build and leave the slot as it is; they add no
\* one-shot job, and the constructor ends with its recurring job registered.
C26_ExistingSnapshotNoFetch ==
    [][((SetupDataRefreshSchedule \/ InitialDataLoad) /\ nfl_board_snapshot # <<>>) =>
          /\ nfl_board_snapshot' = nfl_board_snapshot
          /\ last_build' = last_build
          /\ "initial_full" \notin jobs'
          /\ pc' = "running" => "interval" \in jobs']_vars

\* the constructor has ended over an error snapshot: no build has run, the
\* slot still holds the error snapshot and only the recurring job is there
C26_Witness ==
    /\ pc = "running"
    /\ last_build = NoBuild
    /\ SlotHasError
    /\ jobs = {"interval"}

-----------------------------------------------------------------------------
(* Properties of the placeholders of render() (SpecPlaceholder) *)

\* what a render pass with nothing to draw is to show for the slot's state:
\* the message of _render_error_display for an error snapshot without
\* teams, the placeholder of _render_no_content_available otherwise
PlaceholderFor(slot) ==
    IF slot # <<>> /\ slot[1].errors # <<>> /\ slot[1].all_teams = <<>>
    THEN "error"
    ELSE "no_content"

\* C25: a render pass with nothing to draw shows a placeholder when the
\* slot is empty or holds a valid snapshot with nothing to display, and a
\* message distinct from that placeholder when the slot holds an error
\* snapshot without teams; it draws no item.
C25_PlaceholderPerSlotState ==
    (last_render # "none" /\ Items = <<>>) =>
        last_render = PlaceholderFor(nfl_board_snapshot)

-----------------------------------------------------------------------------
(* Properties of the configuration (SpecConfig) *)

\* a str of blanks only
IsBlank(value) ==
    value.type = "str" /\ \A i \in DOMAIN value.chars : value.chars[i] = " "

\* team_ids is missing, empty, neither a str nor a list, or has only blank
\* entries
NamesNoFavorite(value) ==
    \/ value = Missing
    \/ value.type \notin {"str", "list"}
    \/ IsBlank(value)
    \/ value.type = "list" /\ \A i \in DOMAIN value.items : IsBlank(value.items[i])

\* C22: when the configuration names no favorite team the constructor
\* raises: its only step leaves the scheduler's jobs, the slot and the
\* record of builds as they were, and nothing of the board runs after it.
C22_NoFavoriteAbortsConstruction ==
    [][/\ (pc = "config" /\ NamesNoFavorite(board_config.team_ids)) =>
              /\ pc' = "config_error"
              /\ UNCHANGED <<jobs, nfl_board_snapshot, last_build, config>>
       /\ pc # "config_error"]_vars

\* the constructor has raised for a list of blank entries while the slot
\* holds another consumer's snapshot
C22_Witness ==
    /\ pc = "config_error"
    /\ board_config.team_ids.type = "list"
    /\ Len(board_config.team_ids.items) = 2
    /\ jobs = {} /\ last_build = NoBuild
    /\ nfl_board_snapshot # <<>>

\* the value is a valid HH:MM time of day: two fields that are numbers
\* (digits, as int() reads them), the hour in 0..23 and the minute in 0..59
ValidTimeOfDay(value) ==
    /\ value.type = "str"
    /\ Len(split(value.chars, ":")) = 2
    /\ \A i \in 1..2 : ~int(split(value.chars, ":")[i]).raises
    /\ int(split(value.chars, ":")[1]).value \in 0..23
    /\ int(split(value.chars, ":")[2]).value \in 0..59

Constructed == pc \notin {"config", "config_error"}

\* C23: construction fails only for the team ids, never for the cutoff: a
\* value of show_previous_games_until that is not a valid HH:MM time of day
\* gives the cutoff 06:00, a valid one gives exactly its hour and minute.
C23_CutoffParsedOrDefault ==
    /\ pc = "config_error" => NamesNoFavorite(board_config.team_ids)
    /\ Constructed =>
          LET value == board_config.show_previous_games_until
              cutoff == config.show_previous_games_until_time
          IN IF value # Missing /\ ValidTimeOfDay(value)
             THEN /\ cutoff.hour = int(split(value.chars, ":")[1]).value
                  /\ cutoff.minute = int(split(value.chars, ":")[2]).value
             ELSE cutoff = [hour |-> 6, minute |-> 0]

\* a board constructed with the cutoff "24:00", whose hour is out of range
C23_Witness ==
    /\ Constructed
    /\ board_config.show_previous_games_until = PyStr(<<"2", "4", ":", "0", "0">>)
    /\ config.show_previous_games_until_time = [hour |-> 6, minute |-> 0]
    /\ config.team_ids = <<"B", "B">>

-----------------------------------------------------------------------------
(* Properties of result_token (SpecResult) *)

\* the score of the team asked for and of its opponent, for a participant
ScoreOf(p) ==
    IF p.game.home_team = p.team_id THEN p.game.home_score ELSE p.game.away_score
OpponentScoreOf(p) ==
    IF p.game.home_team = p.team_id THEN p.game.away_score ELSE p.game.home_score
Participant(p) == p.team_id \in {p.game.home_team, p.game.away_team}
ScoresKnown(p) == p.game.home_score # NoScore /\ p.game.away_score # NoScore

\* C24: for a team of a completed game whose scores are known result_token
\* is "W" when the team's score is greater than its opponent's, "L" when it
\* is less and "T" when they are equal; for a game that is not completed it
\* is None; the home and the away team never both get "W" or both "L".
C24_ResultToken ==
    probe # <<>> =>
        LET p == probe[1]
        IN /\ ~p.game.is_completed => p.result = NoToken
           /\ (p.game.is_completed /\ Participant(p) /\ ScoresKnown(p)) =>
                 /\ ScoreOf(p) > OpponentScoreOf(p) => p.result = "W"
                 /\ ScoreOf(p) < OpponentScoreOf(p) => p.result = "L"
                 /\ ScoreOf(p) = OpponentScoreOf(p) => p.result = "T"
           /\ ~(p.home_result = "W" /\ p.away_result = "W")
           /\ ~(p.home_result = "L" /\ p.away_result = "L")

\* the away team of a completed game asked for, with the higher score
C24_Witness ==
    /\ probe # <<>>
    /\ probe[1].game.is_completed
    /\ probe[1].team_id = probe[1].game.away_team
    /\ probe[1].game.away_score = MaxScore /\ probe[1].game.home_score = 0
    /\ probe[1].result = "W" /\ probe[1].home_result = "L"

-----------------------------------------------------------------------------
(* Properties of the recurring job over time (SpecLive) *)

\* a failed cycle is followed by a cycle that stores a valid snapshot, once
\* the adapter works, unless cleanup() ends the board first
RecoversAfterFailure ==
    /\ [](pc = "running" => "interval" \in jobs)
    /\ (SlotHasError /\ adapter = "works") ~> (SlotValid \/ pc = "cleaned")

\* a step of render() in which the selection pass ran over a valid snapshot
SelectionPassed == last_layout_refresh' # last_layout_refresh

\* C21: a failed cycle does not block later cycles: the recurring job stays
\* registered, and once the adapter works a later cycle stores a valid
\* snapshot; a selection pass over a valid snapshot that has favorite teams
\* yields a display list that is not empty.
C21_FailedCycleDoesNotBlock ==
    /\ RecoversAfterFailure
    /\ [][(SelectionPassed /\ nfl_board_snapshot[1].favorite_teams # <<>>)
              => current_display_items' # <<>>]_vars

\* C21 as stated: the display list is not empty when the snapshot has
\* favorite teams or games.
C21_NonEmptyWithTeamsOrGames ==
    /\ RecoversAfterFailure
    /\ [][(/\ SelectionPassed
           /\ \/ nfl_board_snapshot[1].favorite_teams # <<>>
              \/ nfl_board_snapshot[1].todays_games # <<>>
              \/ nfl_board_snapshot[1].yesterdays_games # <<>>)
              => current_display_items' # <<>>]_vars

\* the adapter works, the recurring job has replaced a snapshot that was not
\* valid by a valid one, and a pass over it has been drawn with its items
C21_Witness ==
    /\ adapter = "works"
    /\ last_build.by = "interval" /\ last_build.failure = "none"
    /\ ~last_build.had_valid
    /\ SlotValid
    /\ last_layout_refresh # <<>>
    /\ last_render = "items"

-----------------------------------------------------------------------------
(* Further properties of should_show_previous_game (SpecVisibility) *)

\* C36: a final game that has no date is not shown, whatever the clock and
\* the cutoff; a game that is not final and has no date is shown.
C36_UndatedGame ==
    (Probed /\ ProbedGame.date = NoDate) =>
        (probe[1].result <=> ~is_final(ProbedGame))

\* a final game without a date, asked for at midnight of day 0 with the
\* cutoff one minute later: a game of the day before would be shown
C36_Witness ==
    /\ Probed /\ ProbedGame.date = NoDate /\ is_final(ProbedGame)
    /\ now = [day |-> 0, time |-> Midnight]
    /\ time_lt(now.time, Cutoff)
    /\ ~probe[1].result

-----------------------------------------------------------------------------
(* Properties of _format_last_game_display (SpecResult) *)

Formatted == probe # <<>> /\ "display" \in DOMAIN probe[1]

\* C37: for a completed game with both scores and a team that takes part in
\* it, the first part of the text of _format_last_game_display is the letter
\* result_token returns for the team; for a game with an absent score
\* _format_last_game_display returns a text.
C37_LastGameTextAgreesWithToken ==
    Formatted =>
        LET p == probe[1]
        IN /\ ~p.display.raises
           /\ (p.game.is_completed /\ Participant(p) /\ ScoresKnown(p)) =>
                 p.display.value[1] = p.result

-----------------------------------------------------------------------------
(* Properties of the 30-second gate of render() (Spec) *)

\* at least 30 seconds have passed since the last selection pass that
\* assigned last_layout_refresh; before the first one, since datetime.min
Due ==
    \/ last_layout_refresh = <<>>
    \/ MinutesBetween(last_layout_refresh[1], now) * 60 >= RefreshSeconds

\* a step of the running board that changes the display list
ListRecomputed ==
    /\ pc = "running" /\ pc' = "running"
    /\ current_display_items' # current_display_items

\* C31: the display list is recomputed on its own timer: a step that
\* replaces the snapshot slot leaves current_display_items and
\* last_layout_refresh as they were; the list and last_layout_refresh change
\* only in a render() that finds at least 30 seconds passed since the last
\* completed recomputation; and a render() that finds them passed runs the
\* selection pass, which over a valid snapshot sets last_layout_refresh to
\* the current time.
C31_ListRecomputedOnOwnTimer ==
    [][/\ nfl_board_snapshot' # nfl_board_snapshot =>
             UNCHANGED <<current_display_items, last_layout_refresh>>
       /\ ListRecomputed => Due
       /\ SelectionPassed => Due /\ last_layout_refresh' = <<now>>
       /\ (Render /\ Due /\ SlotValid) => last_layout_refresh' = <<now>>
       /\ (Render /\ ~Due) =>
             UNCHANGED <<current_display_items, last_layout_refresh>>]_vars

\* the list was recomputed over a valid snapshot in the current minute, and
\* the slot has since been replaced by a snapshot with an error marker: the
\* list still holds the items of the replaced snapshot
C31_Witness ==
    /\ pc = "running"
    /\ last_layout_refresh = <<now>>
    /\ Items # <<>>
    /\ last_render = "items"
    /\ SlotHasError

\* C32: a selection pass that finds the slot empty or holding an invalid
\* snapshot empties current_display_items and leaves last_layout_refresh as
\* it was, so the gate is still open afterwards; the gate, once open, stays
\* open over every step until a pass over a valid snapshot runs, and only
\* such a pass changes last_layout_refresh.
C32_InvalidPassKeepsGateOpen ==
    [][/\ (Render /\ Due /\ ~SlotValid) =>
             /\ current_display_items' = <<>>
             /\ UNCHANGED last_layout_refresh
             /\ last_render' = "no_content"
       /\ SelectionPassed => Due /\ SlotValid
       /\ (Due /\ ~SelectionPassed) => Due'
       /\ (Render /\ Due /\ SlotValid) => SelectionPassed /\ ~Due']_vars

\* an earlier pass over a valid snapshot set last_layout_refresh; since then
\* the slot was replaced by an invalid snapshot and a due render() emptied the
\* list without advancing last_layout_refresh, so the next render() retries
C32_Witness ==
    /\ pc = "running"
    /\ last_layout_refresh # <<>>
    /\ last_layout_refresh # <<now>>
    /\ ~SlotValid
    /\ Items = <<>>
    /\ last_render = "no_content"
    /\ Due

-----------------------------------------------------------------------------
(* Properties of the builds statement by statement (SpecThreads) *)

\* the invocation on thread t returns in this step
BuildReturns(t) == Running(t) /\ in_flight'[t].pos = 0

\* C33: every invocation of a build, basic or full, assigns the slot exactly
\* once on each of its paths (success, empty team catalog, exception): an
\* invocation that is still running has not assigned the slot, the step in
\* which it returns is its assignment to the slot, and every statement moves
\* it forward through its program, so that it terminates.
C33_BuildAssignsSlotOnce ==
    [][\A t \in BuildThreads :
          /\ Running(t) => in_flight[t].stores = 0
          /\ BuildReturns(t) =>
                /\ Program(in_flight[t].tier)[in_flight[t].pos] = "store"
                /\ slot_id' = slot_id + 1
                /\ nfl_board_snapshot' = <<in_flight[t].snapshot>>
          /\ (Running(t) /\ in_flight'[t] # in_flight[t] /\ ~BuildReturns(t)) =>
                /\ in_flight'[t].pos > in_flight[t].pos
                /\ in_flight'[t].pos <= Len(Program(in_flight[t].tier))]_vars

\* the constructor's basic build and the two jobs' full builds have all
\* returned; the last of them took the exception path and left its error
\* snapshot in the slot
C33_Witness ==
    /\ pc = "running"
    /\ slot_id = MaxStores
    /\ \A t \in BuildThreads : ~Running(t)
    /\ SlotHasError
    /\ Slot.errors[1] = "Full data refresh failed"

\* a step in which a build of the given tier assigns the slot
Stores(tier) == slot_id' # slot_id /\ last_build'.tier = tier

\* C34: once a full-tier snapshot has been stored in the slot no basic-tier
\* snapshot is stored after it, under every interleaving of the
\* constructor's check of the slot and its basic build with the builds the
\* scheduler starts: no basic build assigns the slot while the slot holds
\* the snapshot of a full build.
C34_BasicNeverOverwritesFull ==
    [][Stores("basic") => last_build.tier # "full"]_vars

-----------------------------------------------------------------------------
(* Properties of the display loop (SpecRender) *)

\* a step of the display loop in which an item is drawn
ItemDrawn ==
    /\ selection.pos = "draw" /\ selection'.pos = "draw"
    /\ selection' # selection

\* a step in which the display loop ends
LoopEnds == selection.pos = "draw" /\ selection'.pos = "idle"

\* C35: within one render() pass the items of current_display_items are
\* drawn in list order, each at most once: the k-th item drawn in a pass is
\* the k-th item of the list, the list is not changed while the loop runs,
\* and the loop ends after the last item at the latest.  Once the sleep event
\* is set no further item is drawn in that pass: the next step of the loop
\* ends it.
C35_ItemsDrawnInOrderUntilSleep ==
    [][/\ ItemDrawn =>
             /\ ~sleep_event
             /\ selection.index \in DOMAIN current_display_items
             /\ drawn' # <<>>
             /\ drawn'[1].item = current_display_items[selection.index]
             /\ selection'.index = selection.index + 1
       /\ (selection.pos = "draw" /\ selection' # selection /\ sleep_event) =>
             LoopEnds /\ UNCHANGED drawn
       /\ selection.pos = "draw" => UNCHANGED current_display_items
       /\ (selection.pos # "draw" /\ selection'.pos = "draw") => selection'.index = 1
       /\ LoopEnds =>
             \/ selection.index = Len(current_display_items) + 1
             \/ sleep_event /\ current_display_items # <<>>]_vars

\* the first of two items has been drawn and the sleep event has been set
\* since: the loop stands before the second item
C35_Witness ==
    /\ sleep_event
    /\ selection.pos = "draw"
    /\ selection.index = 2
    /\ Len(current_display_items) >= 2
    /\ drawn # <<>>
    /\ drawn[1].item = current_display_items[1]

====
